---------------------------- MODULE Spec2Model ----------------------------
(***************************************************************************)
(* Model of the streaming arbitrage-detection pipeline:                    *)
(*   - common/bus.py      EventBus (publish / subscribe / unsubscribe /    *)
(*                        close) over asyncio.Queue                        *)
(*   - rules/spread.py    SpreadEngine                                     *)
(*   - rules/hedged.py    HedgedSpreadEngine                               *)
(*                                                                         *)
(* Everything runs on one asyncio event loop.  The loop is modelled as it  *)
(* works: a FIFO list of ready callbacks (ready); one loop iteration polls *)
(* for I/O, then runs the ntodo callbacks that were ready when it began.   *)
(* A callback runs without interruption up to its next suspension point.   *)
(* Task creation, future wake-ups and gather's done-callbacks all go       *)
(* through call_soon, i.e. to the tail of ready.                           *)
(***************************************************************************)
EXTENDS Integers, Sequences, FiniteSets, TLC

VARIABLES
    \* ---- asyncio event loop
    ready,        \* FIFO of ready callbacks, records [k, a, b]
    ntodo,        \* callbacks left to run in the current loop iteration
    cur,          \* id of the task whose callback is running (0: none)
    \* ---- EventBus and its asyncio.Queue objects
    subscribers,  \* EventBus._subscribers: set of queue ids
    nq,           \* number of queues created so far by subscribe()
    qcap,         \* queue id -> maxsize (0: unbounded)
    qitems,       \* queue id -> Queue._queue, a sequence of publish ids
    putters,      \* queue id -> Queue._putters, sequence of blocked put tasks
    getwait,      \* queue id -> TRUE iff its consumer waits in Queue._getters
    qowner,       \* queue id -> the engine task that reads it (0: a plain consumer)
    \* ---- publish calls (one id per call)
    npub,         \* number of publish calls started
    pubSnap,      \* publish id -> snapshot `queues` taken under the lock
    pubPend,      \* publish id -> put tasks of its gather not yet finished
    pubBy,        \* publish id -> producer that made the call
    pubDone,      \* publish id -> TRUE once publish() has returned
    pubEv,        \* publish id -> the item delivered (index into Events; 0: an
                  \* opaque item, or one published to no subscriber)
    \* ---- tasks around the bus
    pstate,       \* producer -> "io" | "queued" | "gather"
    cstate,       \* queue id -> its consumer task: "idle" | "queued" | "getwait"
    ctlQueued,    \* TRUE iff the controlling task has a callback in ready
    \* ---- history (observation only)
    recv,         \* queue id -> sequence of publish ids put into the queue
    unsubAt,      \* queue id -> npub when unsubscribe(queue) returned (-1: never)
    subAt,        \* queue id -> npub when subscribe() returned it
    subLock,      \* queue id -> "held" | "free": the bus lock while
                  \* subscribe() added the queue ("": not yet added)
    unsubLock,    \* queue id -> the same while unsubscribe() discarded it
    closedAt,     \* queue id -> npub when close() deregistered it (-1: never)
    \* ---- a rule engine (SpreadEngine or HedgedSpreadEngine) and its tasks
    engKind,      \* "spread" | "hedged": which engine class this is
    cfg,          \* its SpreadConfig / HedgedSpreadConfig
    engTask,      \* self._task: a task id, 0 for None
    ntask,        \* number of tasks created by start()
    tpc,          \* task -> where the task of _run() stands
    tq,           \* task -> the queue _run() subscribed (0: not yet)
    tcancel,      \* task -> TRUE iff a CancelledError is to be thrown into it
    tres,         \* task -> "" | "cancelled" | "error": how the task ended
    tev,          \* task -> index of the event being handled (0: none)
    tdir,         \* task -> index of the direction being evaluated
    tnow,         \* task -> `now` of the running _evaluate call
    quotes,       \* self._quotes: token -> venue -> _Quote
    lastAlert,    \* self._last_alert: token -> direction -> entry
    \* ---- environment of the engine
    clock,        \* time.monotonic()
    mstate,       \* the task that drives the engine: "run" | "ready" | "io" |
                  \* "gather" | "stopwait" ("none": there is no such task)
    startErr,     \* TRUE iff the last start() raised RuntimeError
    \* ---- history (observation only)
    sinkLog,      \* the hand-offs to the alert sink, in order
    handled,      \* publish ids whose item reached _handle_event
    pubLive,      \* publish ids made while the engine was started
    fed,          \* the updates passed to _handle_event, in order
    \* ---- venue producers under their supervisor (ingest/base.py)
    stopFlag,     \* client -> self._stopped.is_set()
    supTask,      \* client -> self._task: index of its latest task, 0 for None
    spc,          \* client -> task index -> where _run_with_retries stands
    delay,        \* client -> task index -> the local variable `delay`
    natt,         \* client -> task index -> run_once calls made by the task
    sres,         \* client -> task index -> "" | "ok" | "error" | "cancelled"
    dwait,        \* the client whose task the driving task awaits in stop()
    \* ---- history (observation only)
    slept,        \* client -> task index -> the delays slept, in order
    lastErr,      \* client -> task -> the last run_once that ended raised
    restarted,    \* client -> TRUE once start() was called during a run
    pendingStart, \* client -> what a start() issued while stop() of the
                  \* client was waiting did: "" (none) | "noop" | "new"
    \* BotRuntime.run
    rpc,          \* where run() stands: "none" when no runtime is modelled
    dpc           \* where the task of _dispatch_alerts stands

loopVars == <<ready, ntodo, cur>>
busVars  == <<subscribers, nq, qcap, qitems, putters, getwait, qowner>>
pubVars  == <<npub, pubSnap, pubPend, pubBy, pubDone, pubEv>>
taskVars == <<pstate, cstate, ctlQueued>>
histVars == <<recv, unsubAt, subAt, subLock, unsubLock, closedAt>>
etaskVars == <<engTask, ntask, tq, tcancel, tres, tev, tdir, tnow>>
rulesVars == <<engKind, cfg, quotes, lastAlert>>
envVars  == <<clock, mstate, startErr>>
ehistVars == <<sinkLog, handled, pubLive, fed>>
engVars  == <<etaskVars, rulesVars, envVars, ehistVars>>
supVars  == <<stopFlag, supTask, spc, delay, natt, sres, dwait, slept, lastErr,
              restarted, pendingStart>>
rtVars   == <<rpc, dpc>>
vars == <<loopVars, busVars, pubVars, taskVars, histVars, tpc, engVars,
          supVars, rtVars>>

----------------------------------------------------------------------------
\* Bounds of the model
MaxPub    == 3      \* publish calls per behaviour
MaxQueues == 2      \* queues created by subscribe() per behaviour
NumProducers == 2   \* concurrent producer tasks
MaxBusOps == 4      \* publish calls plus subscribe() calls per behaviour

QIds      == 1..MaxQueues
PubIds    == 1..MaxPub
Producers == 1..NumProducers
Caps      == {0, 1}  \* maxsize values passed to subscribe(): unbounded, 1

----------------------------------------------------------------------------
\* asyncio helpers

Cb(k, a, b) == [k |-> k, a |-> a, b |-> b]

\* All orderings of a finite set: tuple(self._subscribers) iterates the set
\* in an order the program does not control.
RECURSIVE Perms(_)
Perms(S) ==
    IF S = {} THEN {<<>>}
    ELSE UNION {{<<x>> \o p : p \in Perms(S \ {x})} : x \in S}

\* s is in increasing order
InPublishOrderSeq(s) == \A i, j \in 1..Len(s) : i < j => s[i] < s[j]

\* asyncio.Queue.full()
Full(q) == qcap[q] > 0 /\ Len(qitems[q]) >= qcap[q]

\* The callback at the head of ready may run: base_events._run_once
Runs(k) == cur = 0 /\ ntodo > 0 /\ ready # <<>> /\ Head(ready).k = k

----------------------------------------------------------------------------
\* Market events and the rule engines' data (common/models.py, rules/*.py)
\*
\* Prices, sizes and notionals are integers (ticks), chosen so that every
\* percentage the engines compute is exact.  Percentages are kept in
\* hundredths of a percent: 465 stands for 4.65 %.  With these units a fee in
\* basis points divided by 100 (total_bps / 100.0) is the same number.

MaxTasks == 2       \* engine tasks created by start() per behaviour
MaxClock == 2       \* largest value of time.monotonic() in a behaviour

Tasks == 1..MaxTasks
Main  == MaxTasks + 1   \* id of the task that drives the engine

\* An absent Optional[float]
None == -999

Tokens == {"T", "U"}
Venues == {"A", "B"}

Ev(kind, v, bid, ask, ntl, bsz, asz, sz, ts) ==
    [event_type |-> kind, token |-> "T", venue |-> v,
     best_bid |-> bid, best_ask |-> ask, notional |-> ntl,
     bid_size |-> bsz, ask_size |-> asz, size |-> sz, timestamp_ms |-> ts]

\* The MarketEvent values the producers publish
Events == <<
    Ev("book",  "A", 106,  100, 150,  None, None, None, 1),
    Ev("book",  "A", None, 0,   150,  None, None, None, 1),
    Ev("book",  "A", None, 100, 5,    None, None, None, 1),
    Ev("book",  "B", 105,  100, 200,  None, None, None, 2),
    Ev("book",  "B", 106,  None, 200, None, None, None, 2),
    Ev("book",  "B", 100,  None, 200, None, None, None, 2),
    Ev("trade", "B", 107,  None, 200, None, None, None, 3)
>>
EvIds == 1..Len(Events)

\* One pair of venues: VenuePair(("A", "B")).all_directions() for the spread
\* engine, HedgedPair(order_venue="A", perp_venue="B") for the hedged engine.
\* In both, direction 1 buys at A's ask and sells at B's bid and direction 2
\* buys at B's ask and sells at A's bid.
Dirs == <<
    [buy |-> "A", sell |-> "B", tag |-> "order_buy_perp_sell"],
    [buy |-> "B", sell |-> "A", tag |-> "perp_buy_order_sell"]
>>
DirIds == 1..Len(Dirs)

\* SpreadConfig / HedgedSpreadConfig values the engine is built with
Configs == {
    [min_spread_percent |-> 50, min_notional_usdt |-> 50,
     min_improvement_percent |-> 100, debounce_seconds |-> 1,
     slippage_bps |-> 5, fee_bps |-> [v \in {"A", "B"} |->
                                        IF v = "A" THEN 10 ELSE 20]]
}

\* total_cost_percent: self.fee_bps.get(venue, 0.0)
FeeOf(c, v) == IF v \in DOMAIN c.fee_bps THEN c.fee_bps[v] ELSE 0

\* total_cost_percent leaving the slippage out
TotalCostPercentNoSlippage(c, v1, v2) == FeeOf(c, v1) + FeeOf(c, v2)

TotalCostPercent(c, v1, v2) == FeeOf(c, v1) + FeeOf(c, v2) + c.slippage_bps

\* _Quote() as the dataclass defaults build it; has = FALSE: no such entry
NewQuote == [has |-> TRUE, best_bid |-> None, best_ask |-> None,
             notional |-> None, bid_size |-> None, ask_size |-> None,
             timestamp_ms |-> 0]
NoQuote == [NewQuote EXCEPT !.has = FALSE]

\* `if event.x is not None: quote.x = event.x`
Sticky(old, new) == IF new # None THEN new ELSE old

\* The quote after SpreadEngine._handle_event stored event e in it
ApplySpread(q, e) ==
    [q EXCEPT !.has = TRUE,
              !.best_bid = Sticky(@, e.best_bid),
              !.best_ask = Sticky(@, e.best_ask),
              !.notional = Sticky(@, e.notional),
              !.timestamp_ms = e.timestamp_ms]

\* The quote after HedgedSpreadEngine._handle_event stored event e in it
ApplyHedged(q, e) ==
    [q EXCEPT !.has = TRUE,
              !.best_bid = Sticky(@, e.best_bid),
              !.best_ask = Sticky(@, e.best_ask),
              !.bid_size = IF e.bid_size # None THEN e.bid_size
                           ELSE IF e.size # None THEN e.size ELSE @,
              !.ask_size = Sticky(@, e.ask_size),
              !.notional = Sticky(@, e.notional),
              !.timestamp_ms = e.timestamp_ms]

\* _handle_event without the test of the event type
StoresAnyKind(kind, e) ==
    kind = "hedged" \/ e.best_bid # None \/ e.best_ask # None

\* Whether _handle_event gets past its early returns for event e
Stores(kind, e) ==
    /\ e.event_type = "book"
    /\ kind = "hedged" \/ e.best_bid # None \/ e.best_ask # None

Apply(kind, q, e) ==
    IF kind = "spread" THEN ApplySpread(q, e) ELSE ApplyHedged(q, e)

----------------------------------------------------------------------------
\* The evaluation of one direction (_evaluate_spreads, _check_*)

Min(x, y) == IF x <= y THEN x ELSE y
Max(x, y) == IF x >= y THEN x ELSE y

\* `min(values)` over the values that are not None; None if there is none
MinKnown(x, y) ==
    IF x = None THEN y ELSE IF y = None THEN x ELSE Min(x, y)

\* The price gate: both quotes exist, buy ask and sell bid are present, and
\* the buy ask is positive
PricesOk(bq, sq) ==
    /\ bq.has /\ sq.has
    /\ bq.best_ask # None /\ sq.best_bid # None
    /\ bq.best_ask > 0

\* ((sell.best_bid - buy.best_ask) / buy.best_ask) * 100.0
GrossSpread(bq, sq) == ((sq.best_bid - bq.best_ask) * 10000) \div bq.best_ask

NetSpread(c, d, bq, sq) ==
    GrossSpread(bq, sq) - TotalCostPercent(c, Dirs[d].buy, Dirs[d].sell)

\* _side_notional preferring the general notional to price x size
SideNotionalHintFirst(q, side) ==
    LET price == IF side = "ask" THEN q.best_ask ELSE q.best_bid
        size  == IF side = "ask" THEN q.ask_size ELSE q.bid_size
    IN IF q.notional # None THEN q.notional
       ELSE IF price # None /\ size # None THEN price * size ELSE None

\* HedgedSpreadEngine._side_notional
SideNotional(q, side) ==
    LET price == IF side = "ask" THEN q.best_ask ELSE q.best_bid
        size  == IF side = "ask" THEN q.ask_size ELSE q.bid_size
    IN IF price # None /\ size # None THEN price * size ELSE q.notional

\* SpreadEngine._reference_notional
SpreadReferenceNotional(bq, sq) == MinKnown(bq.notional, sq.notional)

\* _reference_notional returning the largest of the known values
HedgedReferenceNotionalMax(bq, sq) ==
    LET b == SideNotional(bq, "ask")
        sl == SideNotional(sq, "bid")
    IN IF b = None THEN sl ELSE IF sl = None THEN b ELSE Max(b, sl)

\* HedgedSpreadEngine._reference_notional: the buy leg is priced at its ask,
\* the sell leg at its bid
HedgedReferenceNotional(bq, sq) ==
    MinKnown(SideNotional(bq, "ask"), SideNotional(sq, "bid"))

ReferenceNotional(kind, bq, sq) ==
    IF kind = "spread" THEN SpreadReferenceNotional(bq, sq)
    ELSE HedgedReferenceNotional(bq, sq)

\* An entry of self._last_alert; has = FALSE: the key is not in the dict
NoEntry == [has |-> FALSE, time |-> 0, spread |-> 0]
Entry(now, net) == [has |-> TRUE, time |-> now, spread |-> net]

\* The entry recorded under a key without the direction
SetLastAlertPairKey(la, d, now, net) == [x \in DOMAIN la |-> Entry(now, net)]

\* `self._last_alert[key] = (now, net)` for the key of direction d, la being
\* the entries of the keys of one token
SetLastAlert(la, d, now, net) == [la EXCEPT ![d] = Entry(now, net)]

\* SpreadEngine: the debounce test of _evaluate_spreads, TRUE = emit
SpreadShouldEmit(c, last, now, net) ==
    ~ ( /\ last.has
        /\ now - last.time < c.debounce_seconds
        /\ net <= last.spread + c.min_improvement_percent )

\* _should_emit that asks for the improvement whatever the elapsed time
HedgedShouldEmitNoWindow(c, last, now, net) ==
    IF ~last.has THEN TRUE
    ELSE net - last.spread >= c.min_improvement_percent

\* HedgedSpreadEngine._should_emit
HedgedShouldEmit(c, last, now, net) ==
    IF ~last.has THEN TRUE
    ELSE IF now - last.time < c.debounce_seconds
         THEN net - last.spread >= c.min_improvement_percent
         ELSE TRUE

\* The debounce test with a window that includes its end: `<=` for `<`
ShouldEmitInclusiveWindow(kind, c, last, now, net) ==
    ~ ( /\ last.has
        /\ now - last.time <= c.debounce_seconds
        /\ net < last.spread + c.min_improvement_percent )

ShouldEmit(kind, c, last, now, net) ==
    IF kind = "spread" THEN SpreadShouldEmit(c, last, now, net)
    ELSE HedgedShouldEmit(c, last, now, net)

\* The spread gate
SpreadOk(c, d, bq, sq) == ~ (NetSpread(c, d, bq, sq) < c.min_spread_percent)

\* The notional gate letting a missing reference notional through
NotionalOkAllowsMissing(kind, c, bq, sq) ==
    LET ntl == ReferenceNotional(kind, bq, sq)
    IN ntl = None \/ ~ (ntl < c.min_notional_usdt)

\* The notional gate without the comparison to min_notional_usdt
NotionalOkMissingOnly(kind, c, bq, sq) ==
    ReferenceNotional(kind, bq, sq) # None

\* The notional gate
NotionalOk(kind, c, bq, sq) ==
    LET ntl == ReferenceNotional(kind, bq, sq)
    IN ntl # None /\ ~ (ntl < c.min_notional_usdt)

\* Whether the evaluation of direction d gets past the price, spread and
\* notional gates
Qualifies(kind, c, d, bq, sq) ==
    IF ~PricesOk(bq, sq) THEN FALSE
    ELSE SpreadOk(c, d, bq, sq) /\ NotionalOk(kind, c, bq, sq)

\* HedgedPair(order_venue="A", perp_venue="B"), the one configured pair
Pair == [order_venue |-> "A", perp_venue |-> "B"]

\* order_price / perp_price taken from the buy quote's ask and the sell
\* quote's bid whatever the direction
HedgedLegsSwapped(d, bq, sq) ==
    [order_price |-> bq.best_ask, perp_price |-> sq.best_bid]

\* order_price / perp_price of the HedgedSpreadAlert of direction d:
\* _check_order_buy_perp_sell buys at the order quote (bq) and sells at the
\* perp quote (sq), _check_perp_buy_order_sell buys at the perp quote (bq)
\* and sells at the order quote (sq)
HedgedLegs(d, bq, sq) ==
    IF Dirs[d].tag = "order_buy_perp_sell"
    THEN [order_price |-> bq.best_ask, perp_price |-> sq.best_bid]
    ELSE [order_price |-> sq.best_bid, perp_price |-> bq.best_ask]

\* The SpreadAlert / HedgedSpreadAlert built for direction d.  buy_venue and
\* sell_venue are fields of SpreadAlert; order_venue, perp_venue, direction,
\* order_price and perp_price are fields of HedgedSpreadAlert ("" or None
\* in the alert of the other class, which has no such field)
Alert(kind, c, tok, d, bq, sq) ==
    [token |-> tok, dir |-> d,
     buy_venue  |-> IF kind = "spread" THEN Dirs[d].buy ELSE "",
     sell_venue |-> IF kind = "spread" THEN Dirs[d].sell ELSE "",
     order_venue |-> IF kind = "hedged" THEN Pair.order_venue ELSE "",
     perp_venue  |-> IF kind = "hedged" THEN Pair.perp_venue ELSE "",
     direction   |-> IF kind = "hedged" THEN Dirs[d].tag ELSE "",
     order_price |-> IF kind = "hedged" THEN HedgedLegs(d, bq, sq).order_price
                     ELSE None,
     perp_price  |-> IF kind = "hedged" THEN HedgedLegs(d, bq, sq).perp_price
                     ELSE None,
     buy_price |-> bq.best_ask, sell_price |-> sq.best_bid,
     gross_spread_percent |-> GrossSpread(bq, sq),
     net_spread_percent |-> NetSpread(c, d, bq, sq),
     reference_notional |-> ReferenceNotional(kind, bq, sq),
     updated_at_ms |-> Max(bq.timestamp_ms, sq.timestamp_ms)]

----------------------------------------------------------------------------
\* Venue producers and their supervisor (ingest/base.py)

NumClients  == 2    \* ingest clients
MaxSupTasks == 2    \* retry-loop tasks created, all clients together
MaxAttempts == 7    \* run_once calls, all clients and tasks together

Clients  == 1..NumClients
SupTasks == 1..MaxSupTasks

\* BackoffConfig defaults; no client of the repository passes another one
BackoffInitial    == 1
BackoffMaximum    == 30
BackoffMultiplier == 2

NextDelayUncapped(d) == d * BackoffMultiplier

\* delay = min(delay * self._backoff.multiplier, self._backoff.maximum)
NextDelay(d) == Min(d * BackoffMultiplier, BackoffMaximum)

\* The id of task k of client p as the running task (cur)
SupId(p, k) == 100 + 10 * p + k

----------------------------------------------------------------------------
\* Initial states

\* A new event loop, EventBus.__init__, no publish call yet
InitBusState ==
    /\ ready = <<>> /\ ntodo = 0
    /\ subscribers = {} /\ nq = 0
    /\ qcap = [q \in QIds |-> 0]
    /\ qitems = [q \in QIds |-> <<>>]
    /\ putters = [q \in QIds |-> <<>>]
    /\ getwait = [q \in QIds |-> FALSE]
    /\ qowner = [q \in QIds |-> 0]
    /\ npub = 0
    /\ pubSnap = [n \in PubIds |-> {}]
    /\ pubPend = [n \in PubIds |-> 0]
    /\ pubBy = [n \in PubIds |-> 0]
    /\ pubDone = [n \in PubIds |-> FALSE]
    /\ pubEv = [n \in PubIds |-> 0]
    /\ pstate = [p \in Producers |-> "io"]
    /\ cstate = [q \in QIds |-> "idle"]
    /\ ctlQueued = FALSE
    /\ recv = [q \in QIds |-> <<>>]
    /\ unsubAt = [q \in QIds |-> -1]
    /\ subAt = [q \in QIds |-> -1]
    /\ subLock = [q \in QIds |-> ""]
    /\ unsubLock = [q \in QIds |-> ""]
    /\ closedAt = [q \in QIds |-> -1]

\* SpreadEngine.__init__ / HedgedSpreadEngine.__init__ with config c
InitEngineState(kind, c) ==
    /\ engKind = kind /\ cfg = c
    /\ engTask = 0 /\ ntask = 0
    /\ tpc = [t \in Tasks |-> "none"]
    /\ tq = [t \in Tasks |-> 0]
    /\ tcancel = [t \in Tasks |-> FALSE]
    /\ tres = [t \in Tasks |-> ""]
    /\ tev = [t \in Tasks |-> 0]
    /\ tdir = [t \in Tasks |-> 0]
    /\ tnow = [t \in Tasks |-> 0]
    /\ quotes = [tok \in Tokens |-> [v \in Venues |-> NoQuote]]
    /\ lastAlert = [tok \in Tokens |-> [d \in DirIds |-> NoEntry]]
    /\ clock = 0 /\ startErr = FALSE
    /\ sinkLog = <<>> /\ handled = {} /\ pubLive = {} /\ fed = <<>>

\* IngestClient.__init__ of every client: no task, the stop event clear
InitSup ==
    /\ stopFlag = [p \in Clients |-> FALSE]
    /\ supTask = [p \in Clients |-> 0]
    /\ spc = [p \in Clients |-> [k \in SupTasks |-> "none"]]
    /\ delay = [p \in Clients |-> [k \in SupTasks |-> 0]]
    /\ natt = [p \in Clients |-> [k \in SupTasks |-> 0]]
    /\ sres = [p \in Clients |-> [k \in SupTasks |-> ""]]
    /\ dwait = 0
    /\ slept = [p \in Clients |-> [k \in SupTasks |-> <<>>]]
    /\ lastErr = [p \in Clients |-> [k \in SupTasks |-> FALSE]]
    /\ restarted = [p \in Clients |-> FALSE]
    /\ pendingStart = [p \in Clients |-> ""]

\* No BotRuntime is running
NoRuntime == rpc = "none" /\ dpc = "none"

\* The bus alone, used by producer, consumer and controlling tasks
InitBus ==
    /\ InitBusState
    /\ cur = 0 /\ mstate = "none"
    /\ InitSup /\ NoRuntime
    /\ InitEngineState("spread", CHOOSE c \in Configs : TRUE)

\* A bus and one engine of either class, in the hands of a running task
InitEngine ==
    /\ InitBusState
    /\ cur = Main /\ mstate = "run"
    /\ InitSup /\ NoRuntime
    /\ \E kind \in {"spread", "hedged"} : \E c \in Configs :
           InitEngineState(kind, c)

----------------------------------------------------------------------------
\* The event loop: polling for I/O between iterations, then one iteration.

\* A venue socket delivers a message to producer p, which will publish it.
IOProducer(p) ==
    /\ cur = 0 /\ ntodo = 0
    /\ pstate[p] = "io"
    /\ npub + Cardinality({r \in Producers : pstate[r] = "queued"}) < MaxPub
    /\ MaxBusOps - nq - npub
          - Cardinality({r \in Producers : pstate[r] = "queued"}) > 0
    /\ pstate' = [pstate EXCEPT ![p] = "queued"]
    /\ ready' = Append(ready, Cb("prod", p, 0))
    /\ UNCHANGED <<ntodo, cur, busVars, pubVars, cstate, ctlQueued, histVars,
                   tpc, engVars, supVars, rtVars>>

\* The consumer task of queue q becomes ready to call `await queue.get()`.
IOConsumer(q) ==
    /\ cur = 0 /\ ntodo = 0
    /\ q <= nq /\ cstate[q] = "idle"
    /\ cstate' = [cstate EXCEPT ![q] = "queued"]
    /\ ready' = Append(ready, Cb("cons", q, 0))
    /\ UNCHANGED <<ntodo, cur, busVars, pubVars, pstate, ctlQueued, histVars,
                   tpc, engVars, supVars, rtVars>>

\* The task that manages subscriptions becomes ready.
IOControl ==
    /\ cur = 0 /\ ntodo = 0
    /\ ~ctlQueued
    /\ ctlQueued' = TRUE
    /\ ready' = Append(ready, Cb("ctl", 0, 0))
    /\ UNCHANGED <<ntodo, cur, busVars, pubVars, pstate, cstate, histVars,
                   tpc, engVars, supVars, rtVars>>

\* BaseEventLoop._run_once: ntodo = len(self._ready)
BeginIter ==
    /\ cur = 0 /\ ntodo = 0 /\ ready # <<>>
    /\ ntodo' = Len(ready)
    /\ UNCHANGED <<ready, cur, busVars, pubVars, taskVars, histVars, tpc, engVars, supVars, rtVars>>

----------------------------------------------------------------------------
\* EventBus.publish

\* publish that awaits queue.put for one queue after the other: only the put
\* for the first queue of the snapshot is under way
PutTasksSerial(n, ord) ==
    IF ord = <<>> THEN <<>> ELSE <<Cb("put", n, ord[1])>>

\* The put tasks gather() creates for publish n, in snapshot order ord.
PutTasks(n, ord) == [i \in 1..Len(ord) |-> Cb("put", n, ord[i])]

\* publish(item) up to its first suspension, called by task p with the ready
\* list rd: snapshot under the lock, return if it is empty, else gather().
\* The lock is free whenever a callback starts (no holder ever suspends), so
\* `async with self._lock` does not suspend.
PublishStart(p, e, rd) ==
    LET n == npub + 1 IN
    /\ npub' = n
    /\ pubEv' = [pubEv EXCEPT ![n] = IF subscribers = {} THEN 0 ELSE e]
    /\ pubBy' = [pubBy EXCEPT ![n] = IF subscribers = {} THEN 0 ELSE p]
    /\ pubSnap' = [pubSnap EXCEPT ![n] = subscribers]
    /\ pubPend' = [pubPend EXCEPT ![n] = Cardinality(subscribers)]
    /\ pubDone' = [pubDone EXCEPT ![n] = (subscribers = {})]
    /\ \E ord \in Perms(subscribers) : ready' = rd \o PutTasks(n, ord)

\* Producer p, woken by its socket, calls `await self.bus.publish(event)`.
RunProducer ==
    /\ Runs("prod")
    /\ ntodo' = ntodo - 1
    /\ PublishStart(Head(ready).a, 0, Tail(ready))
    /\ pstate' = [pstate EXCEPT ![Head(ready).a] =
                     IF subscribers = {} THEN "io" ELSE "gather"]
    /\ UNCHANGED <<cur, busVars, cstate, ctlQueued, histVars, tpc, engVars, supVars, rtVars>>

\* The callback that wakes the task waiting in queue.get() of q, if any:
\* Queue._wakeup_next(self._getters), Future.set_result -> call_soon
WakeGetter(q) ==
    IF ~getwait[q] THEN <<>>
    ELSE IF qowner[q] = 0 THEN <<Cb("cons", q, 0)>>
    ELSE <<Cb("eng", qowner[q], 0)>>

\* RunPut with put_nowait in place of `await queue.put`: an item for a full
\* queue is dropped (QueueFull) and the put task ends.
RunPutNoWait ==
    /\ Runs("put")
    /\ ntodo' = ntodo - 1
    /\ LET n == Head(ready).a
           q == Head(ready).b
       IN IF Full(q)
          THEN /\ ready' = Append(Tail(ready), Cb("gdone", n, q))
               /\ UNCHANGED <<qitems, getwait, recv, cstate, tpc>>
          ELSE /\ qitems' = [qitems EXCEPT ![q] = Append(@, n)]
               /\ recv' = [recv EXCEPT ![q] = Append(@, n)]
               /\ getwait' = [getwait EXCEPT ![q] = FALSE]
               /\ cstate' = IF getwait[q] /\ qowner[q] = 0
                            THEN [cstate EXCEPT ![q] = "queued"] ELSE cstate
               /\ tpc' = IF getwait[q] /\ qowner[q] # 0
                         THEN [tpc EXCEPT ![qowner[q]] = "woken"] ELSE tpc
               /\ ready' = Tail(ready) \o WakeGetter(q) \o <<Cb("gdone", n, q)>>
    /\ UNCHANGED <<cur, subscribers, nq, qcap, putters, qowner, pubVars,
                   pstate, ctlQueued, unsubAt, unsubLock, closedAt, subAt, subLock, engVars, supVars, rtVars>>

\* One step of the task of `queue.put(item)` for publish n and queue q:
\* `while self.full(): await putter`, then put_nowait (which wakes a getter),
\* then the task ends and gather's done-callback is scheduled.
RunPut ==
    /\ Runs("put")
    /\ ntodo' = ntodo - 1
    /\ LET n == Head(ready).a
           q == Head(ready).b
       IN IF Full(q)
          THEN /\ putters' = [putters EXCEPT ![q] = Append(@, n)]
               /\ ready' = Tail(ready)
               /\ UNCHANGED <<qitems, getwait, recv, cstate, tpc>>
          ELSE /\ qitems' = [qitems EXCEPT ![q] = Append(@, n)]
               /\ recv' = [recv EXCEPT ![q] = Append(@, n)]
               /\ getwait' = [getwait EXCEPT ![q] = FALSE]
               /\ cstate' = IF getwait[q] /\ qowner[q] = 0
                            THEN [cstate EXCEPT ![q] = "queued"] ELSE cstate
               /\ tpc' = IF getwait[q] /\ qowner[q] # 0
                         THEN [tpc EXCEPT ![qowner[q]] = "woken"] ELSE tpc
               /\ ready' = Tail(ready) \o WakeGetter(q) \o <<Cb("gdone", n, q)>>
               /\ UNCHANGED putters
    /\ UNCHANGED <<cur, subscribers, nq, qcap, qowner, pubVars, pstate,
                   ctlQueued, unsubAt, unsubLock, closedAt, subAt, subLock, engVars, supVars, rtVars>>

\* RunGatherDone that wakes the publisher when the first put task finishes
RunGatherDoneFirst ==
    /\ Runs("gdone")
    /\ ntodo' = ntodo - 1
    /\ LET n == Head(ready).a IN
       /\ pubPend' = [pubPend EXCEPT ![n] = @ - 1]
       /\ ready' = IF pubPend[n] = Cardinality(pubSnap[n])
                   THEN Append(Tail(ready), Cb("pret", pubBy[n], n))
                   ELSE Tail(ready)
    /\ UNCHANGED <<cur, busVars, npub, pubSnap, pubBy, pubDone, pubEv,
                   taskVars, histVars, tpc, engVars, supVars, rtVars>>

\* gather's _done_callback for one finished put task of publish n: when the
\* last one finishes the outer future is resolved and the publisher woken.
RunGatherDone ==
    /\ Runs("gdone")
    /\ ntodo' = ntodo - 1
    /\ LET n == Head(ready).a IN
       /\ pubPend' = [pubPend EXCEPT ![n] = @ - 1]
       /\ ready' = IF pubPend[n] = 1
                   THEN Append(Tail(ready), Cb("pret", pubBy[n], n))
                   ELSE Tail(ready)
    /\ UNCHANGED <<cur, busVars, npub, pubSnap, pubBy, pubDone, pubEv,
                   taskVars, histVars, tpc, engVars, supVars, rtVars>>

\* publish() returns to producer p, which goes back to reading its socket.
RunPublishReturn ==
    /\ Runs("pret") /\ Head(ready).a \in Producers
    /\ ntodo' = ntodo - 1
    /\ ready' = Tail(ready)
    /\ pubDone' = [pubDone EXCEPT ![Head(ready).b] = TRUE]
    /\ pubBy' = [pubBy EXCEPT ![Head(ready).b] = 0]
    /\ pstate' = [pstate EXCEPT ![Head(ready).a] = "io"]
    /\ UNCHANGED <<cur, busVars, npub, pubSnap, pubPend, pubEv, cstate,
                   ctlQueued, histVars, tpc, engVars, supVars, rtVars>>

----------------------------------------------------------------------------
\* A plain consumer of a queue: `await queue.get()`

\* The put tasks Queue.get_nowait wakes when it removes k items from q.
Woken(q, k) ==
    LET m == IF k < Len(putters[q]) THEN k ELSE Len(putters[q])
    IN [i \in 1..m |-> Cb("put", putters[q][i], q)]

\* Queue._putters after k items were removed from q
PuttersLeft(q, k) == SubSeq(putters[q], Len(Woken(q, k)) + 1, Len(putters[q]))

RunConsumer ==
    /\ Runs("cons")
    /\ ntodo' = ntodo - 1
    /\ LET q == Head(ready).a IN
       IF qitems[q] = <<>>
       THEN /\ getwait' = [getwait EXCEPT ![q] = TRUE]
            /\ cstate' = [cstate EXCEPT ![q] = "getwait"]
            /\ ready' = Tail(ready)
            /\ UNCHANGED <<qitems, putters>>
       ELSE /\ qitems' = [qitems EXCEPT ![q] = Tail(@)]
            /\ putters' = [putters EXCEPT ![q] = PuttersLeft(q, 1)]
            /\ ready' = Tail(ready) \o Woken(q, 1)
            /\ cstate' = [cstate EXCEPT ![q] = "idle"]
            /\ UNCHANGED getwait
    /\ UNCHANGED <<cur, subscribers, nq, qcap, qowner, pubVars, pstate,
                   ctlQueued, histVars, tpc, engVars, supVars, rtVars>>

----------------------------------------------------------------------------
\* EventBus.subscribe / unsubscribe / close, called by the controlling task

\* Calls left in the budget of publish and subscribe calls
BusOpsLeft ==
    MaxBusOps - nq - npub - Cardinality({r \in Producers : pstate[r] = "queued"})

\* subscribe() when publish delivers to the live subscriber set instead of
\* its snapshot: the new queue gets the items of the publishes in flight.
SubscribeSeesInFlight(cap) ==
    LET inflight == {n \in 1..npub : pubPend[n] > 0}
        items == CHOOSE sq \in Perms(inflight) : InPublishOrderSeq(sq)
    IN /\ nq < MaxQueues /\ BusOpsLeft > 0
       /\ nq' = nq + 1
       /\ qcap' = [qcap EXCEPT ![nq + 1] = cap]
       /\ subscribers' = subscribers \cup {nq + 1}
       /\ subAt' = [subAt EXCEPT ![nq + 1] = npub]
       /\ subLock' = [subLock EXCEPT ![nq + 1] = "free"]
       /\ qitems' = [qitems EXCEPT ![nq + 1] = items]
       /\ recv' = [recv EXCEPT ![nq + 1] = items]
       /\ UNCHANGED <<putters, getwait, qowner, unsubAt, unsubLock, closedAt>>

Subscribe(cap) ==
    /\ nq < MaxQueues /\ BusOpsLeft > 0
    /\ nq' = nq + 1
    /\ qcap' = [qcap EXCEPT ![nq + 1] = cap]
    /\ subscribers' = subscribers \cup {nq + 1}
    /\ subAt' = [subAt EXCEPT ![nq + 1] = npub]
    /\ subLock' = [subLock EXCEPT ![nq + 1] = "free"]
    /\ UNCHANGED <<qitems, putters, getwait, qowner, recv, unsubAt, unsubLock, closedAt>>

\* unsubscribe() that returns without discarding the queue from the set
UnsubscribeKeeps(q) ==
    /\ q <= nq /\ unsubAt[q] = -1
    /\ unsubAt' = [unsubAt EXCEPT ![q] = npub]
    /\ unsubLock' = [unsubLock EXCEPT ![q] = "free"]
    /\ UNCHANGED closedAt
    /\ UNCHANGED <<subscribers, nq, qcap, qitems, putters, getwait, qowner,
                   recv, subAt, subLock>>

Unsubscribe(q) ==
    /\ q <= nq /\ unsubAt[q] = -1
    /\ subscribers' = subscribers \ {q}
    /\ unsubAt' = [unsubAt EXCEPT ![q] = npub]
    /\ unsubLock' = [unsubLock EXCEPT ![q] = "free"]
    /\ UNCHANGED closedAt
    /\ UNCHANGED <<nq, qcap, qitems, putters, getwait, qowner, recv, subAt, subLock>>

\* The put tasks woken while close() drains the queues in order ord.
RECURSIVE DrainWoken(_)
DrainWoken(ord) ==
    IF ord = <<>> THEN <<>>
    ELSE Woken(Head(ord), Len(qitems[Head(ord)])) \o DrainWoken(Tail(ord))

\* close() that clears the subscriber set and leaves the queues as they are
CloseNoDrain(rd) ==
    /\ subscribers' = {}
    /\ ready' = rd
    /\ closedAt' = [q \in QIds |->
                      IF q \in subscribers THEN npub ELSE closedAt[q]]
    /\ UNCHANGED <<nq, qcap, qitems, putters, getwait, qowner, recv, unsubAt,
                   subAt, subLock, unsubLock>>

\* close(): snapshot and clear under the lock, then drain every queue of the
\* snapshot with get_nowait(), which wakes one blocked put task per item.
Close(rd) ==
    /\ subscribers' = {}
    /\ qitems' = [q \in QIds |-> IF q \in subscribers THEN <<>> ELSE qitems[q]]
    /\ putters' = [q \in QIds |->
                     IF q \in subscribers
                     THEN PuttersLeft(q, Len(qitems[q])) ELSE putters[q]]
    /\ \E ord \in Perms(subscribers) : ready' = rd \o DrainWoken(ord)
    /\ closedAt' = [q \in QIds |->
                      IF q \in subscribers THEN npub ELSE closedAt[q]]
    /\ UNCHANGED <<nq, qcap, getwait, qowner, recv, unsubAt, subAt, subLock,
                   unsubLock>>

RunControl ==
    /\ Runs("ctl")
    /\ ntodo' = ntodo - 1
    /\ ctlQueued' = FALSE
    /\ \/ \E cap \in Caps : Subscribe(cap) /\ ready' = Tail(ready)
       \/ \E q \in QIds : Unsubscribe(q) /\ ready' = Tail(ready)
       \/ Close(Tail(ready))
    /\ UNCHANGED <<cur, pubVars, pstate, cstate, tpc, engVars, supVars, rtVars>>

----------------------------------------------------------------------------
NextBus ==
    \/ \E p \in Producers : IOProducer(p)
    \/ \E q \in QIds : IOConsumer(q)
    \/ IOControl
    \/ BeginIter
    \/ RunProducer
    \/ RunPut
    \/ RunGatherDone
    \/ RunPublishReturn
    \/ RunConsumer
    \/ RunControl

SpecBus == InitBus /\ [][NextBus]_vars

----------------------------------------------------------------------------
\* The task that drives an engine: it calls start(), stop() and publish() as
\* the tests and app/runtime.py do, and gives way to the loop in between.

\* start() may create another task (the model's bound on tasks and queues)
CanStart == ntask < Min(MaxTasks, MaxQueues)

\* start() without the `if self._task is not None: raise` guard
StartUnguarded ==
    /\ CanStart
    /\ engTask' = ntask + 1
    /\ ntask' = ntask + 1
    /\ tpc' = [tpc EXCEPT ![ntask + 1] = "new"]
    /\ ready' = Append(ready, Cb("eng", ntask + 1, 0))
    /\ startErr' = FALSE

\* start(): raise if _task is set, else create_task(self._run())
Start ==
    IF engTask # 0
    THEN /\ ~startErr
         /\ startErr' = TRUE
         /\ UNCHANGED <<engTask, ntask, tpc, ready>>
    ELSE /\ CanStart
         /\ engTask' = ntask + 1
         /\ ntask' = ntask + 1
         /\ tpc' = [tpc EXCEPT ![ntask + 1] = "new"]
         /\ ready' = Append(ready, Cb("eng", ntask + 1, 0))
         /\ startErr' = FALSE

MainStart ==
    /\ cur = Main /\ mstate = "run"
    /\ Start
    /\ UNCHANGED <<ntodo, cur, busVars, pubVars, taskVars, histVars,
                   tq, tcancel, tres, tev, tdir, tnow, rulesVars, supVars, rtVars,
                   clock, mstate, ehistVars>>

\* Task.cancel() on task t: a task suspended on a future has that future
\* cancelled and is scheduled again; one that is already scheduled gets the
\* CancelledError at its next step; a finished task is left alone.
CancelWakes(t) == tpc[t] \in {"getwait", "sink"}

TpcAfterCancel(t) ==
    IF tpc[t] = "getwait" THEN "woken"
    ELSE IF tpc[t] = "sink" THEN "sinkwoken"
    ELSE tpc[t]

\* stop() that cancels the task and clears _task without awaiting it
MainStopNoWait ==
    /\ cur = Main /\ mstate = "run"
    /\ engTask # 0
    /\ LET t == engTask IN
       /\ engTask' = 0
       /\ IF tpc[t] = "done"
          THEN UNCHANGED <<ready, tpc, tcancel, getwait>>
          ELSE /\ tcancel' = [tcancel EXCEPT ![t] = TRUE]
               /\ tpc' = [tpc EXCEPT ![t] = TpcAfterCancel(t)]
               /\ getwait' = IF tpc[t] = "getwait"
                             THEN [getwait EXCEPT ![tq[t]] = FALSE]
                             ELSE getwait
               /\ ready' = IF CancelWakes(t)
                           THEN Append(ready, Cb("eng", t, 0)) ELSE ready
    /\ UNCHANGED <<ntodo, cur, mstate, subscribers, nq, qcap, qitems, putters,
                   qowner, pubVars, taskVars, histVars, ntask, tq, tres, tev,
                   tdir, tnow, rulesVars, supVars, rtVars, clock, startErr,
                   ehistVars>>

\* stop() up to `await self._task`.  With a task that has already ended the
\* await does not suspend and the finally clause clears _task at once.
MainStop ==
    /\ cur = Main /\ mstate = "run"
    /\ engTask # 0
    /\ LET t == engTask IN
       IF tpc[t] = "done"
       THEN /\ engTask' = 0
            /\ UNCHANGED <<ready, cur, mstate, tpc, tcancel, getwait>>
       ELSE /\ tcancel' = [tcancel EXCEPT ![t] = TRUE]
            /\ tpc' = [tpc EXCEPT ![t] = TpcAfterCancel(t)]
            /\ getwait' = IF tpc[t] = "getwait"
                          THEN [getwait EXCEPT ![tq[t]] = FALSE] ELSE getwait
            /\ ready' = IF CancelWakes(t)
                        THEN Append(ready, Cb("eng", t, 0)) ELSE ready
            /\ mstate' = "stopwait"
            /\ cur' = 0
            /\ UNCHANGED engTask
    /\ UNCHANGED <<ntodo, subscribers, nq, qcap, qitems, putters, qowner,
                   pubVars, taskVars, histVars, ntask, tq, tres, tev, tdir,
                   tnow, rulesVars, supVars, rtVars, clock, startErr, ehistVars>>

\* The engine has been started and neither stopped nor ended
EngineLive == engTask # 0 /\ tpc[engTask] # "done" /\ ~tcancel[engTask]

\* `await bus.publish(Events[e])`: with no subscriber it returns at once
MainPublish(e) ==
    /\ cur = Main /\ mstate = "run"
    /\ npub < MaxPub
    /\ PublishStart(Main, e, ready)
    /\ pubLive' = IF EngineLive THEN pubLive \cup {npub + 1} ELSE pubLive
    /\ mstate' = IF subscribers = {} THEN "run" ELSE "gather"
    /\ cur' = IF subscribers = {} THEN Main ELSE 0
    /\ UNCHANGED <<ntodo, busVars, taskVars, histVars, tpc, etaskVars,
                   rulesVars, supVars, rtVars, clock, startErr, sinkLog, handled, fed>>

\* publish() returns to the driving task
MainPublishReturn ==
    /\ Runs("pret") /\ Head(ready).a = Main
    /\ ntodo' = ntodo - 1
    /\ ready' = Tail(ready)
    /\ pubDone' = [pubDone EXCEPT ![Head(ready).b] = TRUE]
    /\ pubBy' = [pubBy EXCEPT ![Head(ready).b] = 0]
    /\ mstate' = "run"
    /\ cur' = Main
    /\ UNCHANGED <<busVars, npub, pubSnap, pubPend, pubEv, taskVars, histVars,
                   tpc, etaskVars, rulesVars, supVars, rtVars, clock, startErr, ehistVars>>

\* `await asyncio.sleep(0)`: back to the tail of the ready list
MainYield ==
    /\ cur = Main /\ mstate = "run"
    /\ ready' = Append(ready, Cb("main", 0, 0))
    /\ mstate' = "ready"
    /\ cur' = 0
    /\ UNCHANGED <<ntodo, busVars, pubVars, taskVars, histVars, tpc,
                   etaskVars, rulesVars, supVars, rtVars, clock, startErr, ehistVars>>

\* The driving task waits for a timer or an event (asyncio.sleep(0.1),
\* stop_event.wait())
MainWait ==
    /\ cur = Main /\ mstate = "run"
    /\ mstate' = "io"
    /\ cur' = 0
    /\ UNCHANGED <<ready, ntodo, busVars, pubVars, taskVars, histVars, tpc,
                   etaskVars, rulesVars, supVars, rtVars, clock, startErr, ehistVars>>

\* ... and what it waited for happens
IOMain ==
    /\ cur = 0 /\ ntodo = 0
    /\ mstate = "io"
    /\ mstate' = "ready"
    /\ ready' = Append(ready, Cb("main", 0, 0))
    /\ UNCHANGED <<ntodo, cur, busVars, pubVars, taskVars, histVars, tpc,
                   etaskVars, rulesVars, supVars, rtVars, clock, startErr, ehistVars>>

\* The driving task runs again; if it was inside stop(), `await self._task`
\* is over and the finally clause sets _task to None.
MainResume ==
    /\ Runs("main")
    /\ ntodo' = ntodo - 1
    /\ ready' = Tail(ready)
    /\ engTask' = IF mstate = "stopwait" THEN 0 ELSE engTask
    /\ mstate' = "run"
    /\ cur' = Main
    /\ UNCHANGED <<busVars, pubVars, taskVars, histVars, tpc, ntask, tq,
                   tcancel, tres, tev, tdir, tnow, rulesVars, supVars, rtVars, clock, startErr,
                   ehistVars>>

----------------------------------------------------------------------------
\* The engine task: _run(), _handle_event(), _evaluate*()

\* The task of _run() ends with result res; whoever awaits it in stop() is
\* woken.  rd is the ready list without the callback that is running.
TaskEnds(t, res, rd) ==
    /\ tpc' = [tpc EXCEPT ![t] = "done"]
    /\ tres' = [tres EXCEPT ![t] = res]
    /\ tcancel' = [tcancel EXCEPT ![t] = FALSE]
    /\ ready' = IF mstate = "stopwait" /\ engTask = t
                THEN Append(rd, Cb("main", 0, 0)) ELSE rd
    /\ cur' = 0

\* `finally: self._bus.unsubscribe(queue)`
EngineUnsub(q) ==
    /\ subscribers' = subscribers \ {q}
    /\ unsubAt' = [unsubAt EXCEPT ![q] = npub]
    /\ unsubLock' = [unsubLock EXCEPT ![q] = "free"]
    /\ UNCHANGED closedAt

\* queue.get() returns the oldest item to task t, and _handle_event runs up to
\* the loop over the directions: early returns, the write to the quote cache,
\* and `now = time.monotonic()`.  The engine's queue is unbounded, so no put
\* task waits on it.
BeginHandle(t, rd) ==
    LET q == tq[t]
        n == Head(qitems[q])
        e == Events[pubEv[n]]
    IN /\ qitems' = [qitems EXCEPT ![q] = Tail(@)]
       /\ handled' = handled \cup {n}
       /\ fed' = Append(fed, e)
       /\ tev' = [tev EXCEPT ![t] = n]
       /\ tpc' = [tpc EXCEPT ![t] = "eval"]
       /\ cur' = t
       /\ ready' = rd
       /\ IF Stores(engKind, e)
          THEN /\ quotes' = [quotes EXCEPT
                               ![e.token][e.venue] = Apply(engKind, @, e)]
               /\ \E now \in clock..MaxClock :
                      /\ clock' = now
                      /\ tnow' = [tnow EXCEPT ![t] = now]
               /\ tdir' = [tdir EXCEPT ![t] = 1]
          ELSE /\ tdir' = [tdir EXCEPT ![t] = Len(Dirs) + 1]
               /\ UNCHANGED <<quotes, clock, tnow>>

\* First step of the task: subscribe, then wait in queue.get().  A task
\* cancelled before its first step never runs its body.
EngineFirstStep ==
    /\ Runs("eng") /\ tpc[Head(ready).a] = "new"
    /\ ntodo' = ntodo - 1
    /\ LET t == Head(ready).a
           q == nq + 1
       IN IF tcancel[t]
          THEN /\ TaskEnds(t, "cancelled", Tail(ready))
               /\ UNCHANGED <<subscribers, nq, qcap, getwait, qowner, subAt, subLock, tq>>
          ELSE /\ nq' = q
               /\ qcap' = [qcap EXCEPT ![q] = 0]
               /\ subscribers' = subscribers \cup {q}
               /\ qowner' = [qowner EXCEPT ![q] = t]
               /\ subAt' = [subAt EXCEPT ![q] = npub]
               /\ subLock' = [subLock EXCEPT ![q] = "free"]
               /\ tq' = [tq EXCEPT ![t] = q]
               /\ getwait' = [getwait EXCEPT ![q] = TRUE]
               /\ tpc' = [tpc EXCEPT ![t] = "getwait"]
               /\ ready' = Tail(ready)
               /\ UNCHANGED <<cur, tres, tcancel>>
    /\ UNCHANGED <<qitems, putters, pubVars, taskVars, recv, unsubAt, unsubLock, closedAt,
                   engTask, ntask, tev, tdir, tnow, rulesVars, supVars, rtVars, envVars,
                   ehistVars>>

\* The task wakes up in `await queue.get()`: with an item, or with the
\* CancelledError of stop(), which leaves the item in the queue.
EngineGetReturns ==
    /\ Runs("eng") /\ tpc[Head(ready).a] = "woken"
    /\ ntodo' = ntodo - 1
    /\ LET t == Head(ready).a IN
       IF tcancel[t]
       THEN /\ EngineUnsub(tq[t])
            /\ TaskEnds(t, "cancelled", Tail(ready))
            /\ UNCHANGED <<qitems, handled, fed, tev, quotes, clock, tnow, tdir>>
       ELSE /\ qitems[tq[t]] # <<>>
            /\ BeginHandle(t, Tail(ready))
            /\ UNCHANGED <<subscribers, unsubAt, unsubLock, closedAt, tres, tcancel>>
    /\ UNCHANGED <<nq, qcap, putters, getwait, qowner, pubVars, taskVars,
                   recv, subAt, subLock, engTask, ntask, tq, engKind, cfg, supVars, rtVars, lastAlert,
                   mstate, startErr, sinkLog, pubLive>>

\* The entries of sinkLog with the hand-off task t has in flight set to st
SetSt(t, st) ==
    [i \in 1..Len(sinkLog) |->
        IF sinkLog[i].task = t /\ sinkLog[i].st = "inflight"
        THEN [sinkLog[i] EXCEPT !.st = st] ELSE sinkLog[i]]

\* EvalDir with the sink called but not awaited (create_task(callback(alert))):
\* the loop goes on while the hand-off is pending, and no entry is recorded.
EvalDirFireAndForget(t) ==
    /\ cur = t /\ tpc[t] = "eval" /\ tdir[t] <= Len(Dirs)
    /\ LET d == tdir[t]
           tok == Events[pubEv[tev[t]]].token
           bq == quotes[tok][Dirs[d].buy]
           sq == quotes[tok][Dirs[d].sell]
       IN /\ sinkLog' =
                 IF /\ Qualifies(engKind, cfg, d, bq, sq)
                    /\ ShouldEmit(engKind, cfg, lastAlert[tok][d], tnow[t],
                                  NetSpread(cfg, d, bq, sq))
                 THEN Append(sinkLog,
                        [alert |-> Alert(engKind, cfg, tok, d, bq, sq),
                         now |-> tnow[t], last |-> lastAlert[tok][d],
                         st |-> "inflight", task |-> t, pub |-> tev[t]])
                 ELSE sinkLog
          /\ tdir' = [tdir EXCEPT ![t] = d + 1]
    /\ UNCHANGED <<loopVars, busVars, pubVars, taskVars, histVars, tpc,
                   engTask, ntask, tq, tcancel, tres, tev, tnow, rulesVars, supVars, rtVars,
                   envVars, handled, fed, pubLive>>

\* One direction of the loop in _evaluate_spreads / one _check_* call: the
\* gates, the debounce test, and the call of the alert sink.
EvalDir(t) ==
    /\ cur = t /\ tpc[t] = "eval" /\ tdir[t] <= Len(Dirs)
    /\ LET d == tdir[t]
           tok == Events[pubEv[tev[t]]].token
           bq == quotes[tok][Dirs[d].buy]
           sq == quotes[tok][Dirs[d].sell]
       IN IF /\ Qualifies(engKind, cfg, d, bq, sq)
             /\ ShouldEmit(engKind, cfg, lastAlert[tok][d], tnow[t],
                           NetSpread(cfg, d, bq, sq))
          THEN /\ sinkLog' = Append(sinkLog,
                     [alert |-> Alert(engKind, cfg, tok, d, bq, sq),
                      now |-> tnow[t], last |-> lastAlert[tok][d],
                      st |-> "inflight", task |-> t, pub |-> tev[t]])
               /\ tpc' = [tpc EXCEPT ![t] = "sinkcall"]
               /\ UNCHANGED tdir
          ELSE /\ tdir' = [tdir EXCEPT ![t] = d + 1]
               /\ UNCHANGED <<sinkLog, tpc>>
    /\ UNCHANGED <<loopVars, busVars, pubVars, taskVars, histVars, engTask,
                   ntask, tq, tcancel, tres, tev, tnow, rulesVars, supVars, rtVars, envVars,
                   handled, fed, pubLive>>

\* The alert task t is handing to the sink
InFlight(t) ==
    sinkLog[CHOOSE i \in 1..Len(sinkLog) :
                sinkLog[i].task = t /\ sinkLog[i].st = "inflight"]

\* The sink returns and the loop goes on without recording the emission
SinkReturnsNoEntry(t) ==
    /\ cur = t /\ tpc[t] = "sinkcall"
    /\ sinkLog' = SetSt(t, "returned")
    /\ tdir' = [tdir EXCEPT ![t] = @ + 1]
    /\ tpc' = [tpc EXCEPT ![t] = "eval"]
    /\ UNCHANGED <<loopVars, busVars, pubVars, taskVars, histVars, engTask,
                   ntask, tq, tcancel, tres, tev, tnow, engKind, cfg, supVars, rtVars, quotes,
                   lastAlert, envVars, handled, fed, pubLive>>

\* `await self._alert_callback(alert)` returns:
\* self._last_alert[key] = (now, net), and the loop goes on
SinkReturns(t) ==
    /\ cur = t /\ tpc[t] = "sinkcall"
    /\ lastAlert' = [lastAlert EXCEPT
                       ![InFlight(t).alert.token] =
                           SetLastAlert(@, tdir[t], tnow[t],
                                        InFlight(t).alert.net_spread_percent)]
    /\ sinkLog' = SetSt(t, "returned")
    /\ tdir' = [tdir EXCEPT ![t] = @ + 1]
    /\ tpc' = [tpc EXCEPT ![t] = "eval"]
    /\ UNCHANGED <<loopVars, busVars, pubVars, taskVars, histVars, engTask,
                   ntask, tq, tcancel, tres, tev, tnow, engKind, cfg, supVars, rtVars, quotes,
                   envVars, handled, fed, pubLive>>

\* The sink awaits something that is not ready (a full queue, a socket)
SinkSuspends(t) ==
    /\ cur = t /\ tpc[t] = "sinkcall"
    /\ tpc' = [tpc EXCEPT ![t] = "sink"]
    /\ cur' = 0
    /\ UNCHANGED <<ready, ntodo, busVars, pubVars, taskVars, histVars,
                   etaskVars, rulesVars, supVars, rtVars, envVars, ehistVars>>

\* ... and what the sink awaited becomes ready
IOSink(t) ==
    /\ cur = 0 /\ ntodo = 0
    /\ tpc[t] = "sink"
    /\ tpc' = [tpc EXCEPT ![t] = "sinkwoken"]
    /\ ready' = Append(ready, Cb("eng", t, 0))
    /\ UNCHANGED <<ntodo, cur, busVars, pubVars, taskVars, histVars,
                   etaskVars, rulesVars, supVars, rtVars, envVars, ehistVars>>

\* The task wakes up inside the sink: the sink runs on, or the
\* CancelledError of stop() unwinds the sink, _handle_event and _run.
EngineSinkResumes ==
    /\ Runs("eng") /\ tpc[Head(ready).a] = "sinkwoken"
    /\ ntodo' = ntodo - 1
    /\ LET t == Head(ready).a IN
       IF tcancel[t]
       THEN /\ sinkLog' = SetSt(t, "cancelled")
            /\ EngineUnsub(tq[t])
            /\ TaskEnds(t, "cancelled", Tail(ready))
       ELSE /\ tpc' = [tpc EXCEPT ![t] = "sinkcall"]
            /\ cur' = t
            /\ ready' = Tail(ready)
            /\ UNCHANGED <<sinkLog, subscribers, unsubAt, unsubLock, closedAt, tres, tcancel>>
    /\ UNCHANGED <<nq, qcap, qitems, putters, getwait, qowner, pubVars,
                   taskVars, recv, subAt, subLock, engTask, ntask, tq, tev, tdir, tnow,
                   rulesVars, supVars, rtVars, envVars, handled, fed, pubLive>>

\* The sink raises and the engine goes on with the next direction
SinkRaisesSwallowed(t) ==
    /\ cur = t /\ tpc[t] = "sinkcall"
    /\ sinkLog' = SetSt(t, "raised")
    /\ tdir' = [tdir EXCEPT ![t] = @ + 1]
    /\ tpc' = [tpc EXCEPT ![t] = "eval"]
    /\ UNCHANGED <<loopVars, busVars, pubVars, taskVars, histVars, engTask,
                   ntask, tq, tcancel, tres, tev, tnow, engKind, cfg, supVars, rtVars, quotes,
                   lastAlert, envVars, handled, fed, pubLive>>

\* The sink raises: the exception unwinds _handle_event and _run (task_done,
\* unsubscribe) and ends the task; self._task keeps pointing at it.
SinkRaises(t) ==
    /\ cur = t /\ tpc[t] = "sinkcall"
    /\ sinkLog' = SetSt(t, "raised")
    /\ EngineUnsub(tq[t])
    /\ TaskEnds(t, "error", ready)
    /\ UNCHANGED <<ntodo, nq, qcap, qitems, putters, getwait, qowner, pubVars,
                   taskVars, recv, subAt, subLock, engTask, ntask, tq, tev, tdir, tnow,
                   rulesVars, supVars, rtVars, envVars, handled, fed, pubLive>>

\* _handle_event has returned: queue.task_done(), and the next queue.get(),
\* which returns at once if an item is there and suspends otherwise.
EngineNext(t) ==
    /\ cur = t /\ tpc[t] = "eval" /\ tdir[t] > Len(Dirs)
    /\ IF qitems[tq[t]] = <<>>
       THEN /\ tpc' = [tpc EXCEPT ![t] = "getwait"]
            /\ getwait' = [getwait EXCEPT ![tq[t]] = TRUE]
            /\ tev' = [tev EXCEPT ![t] = 0]
            /\ cur' = 0
            /\ UNCHANGED <<ready, qitems, handled, fed, quotes, clock, tnow, tdir>>
       ELSE /\ BeginHandle(t, ready)
            /\ UNCHANGED getwait
    /\ UNCHANGED <<ntodo, subscribers, nq, qcap, putters, qowner, pubVars,
                   taskVars, histVars, engTask, ntask, tq, tcancel, tres,
                   engKind, cfg, supVars, rtVars, lastAlert, mstate, startErr, sinkLog, pubLive>>

----------------------------------------------------------------------------
NextEngine ==
    \/ BeginIter
    \/ RunPut
    \/ RunGatherDone
    \/ MainStart
    \/ MainStop
    \/ \E e \in EvIds : MainPublish(e)
    \/ MainPublishReturn
    \/ MainYield
    \/ MainWait
    \/ IOMain
    \/ MainResume
    \/ EngineFirstStep
    \/ EngineGetReturns
    \/ EngineSinkResumes
    \/ \E t \in Tasks : EvalDir(t)
    \/ \E t \in Tasks : SinkReturns(t)
    \/ \E t \in Tasks : SinkSuspends(t)
    \/ \E t \in Tasks : IOSink(t)
    \/ \E t \in Tasks : SinkRaises(t)
    \/ \E t \in Tasks : EngineNext(t)

SpecEngine == InitEngine /\ [][NextEngine]_vars

----------------------------------------------------------------------------
\* An engine fed directly: `await engine._handle_event(event)` with a sink
\* that returns without suspending (as alerts_queue.put of app/runtime.py on
\* its unbounded queue).  One call runs the cache write and the evaluation of
\* every direction to the end.

MaxUpdates == 4     \* updates fed to the engine per behaviour

\* The MarketEvent values fed: prices with and without a notional hint,
\* sizes, a bare `size`, hints without prices, and a trade
RuleEvents == {
    Ev("book",  "A", 106,  100,  None, None, None, None, 1),
    Ev("book",  "A", None, None, 150,  None, None, None, 2),
    Ev("book",  "A", None, 100,  None, None, 2,    None, 3),
    Ev("book",  "A", None, None, None, 3,    None, None, 4),
    Ev("book",  "A", 106,  None, None, None, None, 1,    5),
    Ev("book",  "B", 105,  100,  None, None, None, None, 1),
    Ev("book",  "B", 105,  None, 200,  None, None, None, 2),
    Ev("book",  "B", 110,  None, 20,   None, None, None, 3),
    Ev("book",  "B", 105,  None, None, 2,    None, None, 4),
    Ev("book",  "B", None, None, None, None, None, 1,    5),
    Ev("trade", "B", 120,  100,  300,  4,    4,    4,    6)
}

\* The loop over the directions restarting the window of a key whenever an
\* evaluation of it is suppressed by the debounce test
RECURSIVE EvalAllRefreshing(_, _, _, _, _, _, _, _)
EvalAllRefreshing(kind, c, tok, qs, la, log, now, d) ==
    IF d > Len(Dirs) THEN [la |-> la, log |-> log]
    ELSE LET bq == qs[Dirs[d].buy]
             sq == qs[Dirs[d].sell]
         IN IF ~Qualifies(kind, c, d, bq, sq)
            THEN EvalAllRefreshing(kind, c, tok, qs, la, log, now, d + 1)
            ELSE IF ShouldEmit(kind, c, la[d], now, NetSpread(c, d, bq, sq))
            THEN EvalAllRefreshing(kind, c, tok, qs,
                     SetLastAlert(la, d, now, NetSpread(c, d, bq, sq)),
                     Append(log,
                            [alert |-> Alert(kind, c, tok, d, bq, sq),
                             now |-> now, last |-> la[d],
                             st |-> "returned", task |-> 0,
                             pub |-> Len(fed) + 1]),
                     now, d + 1)
            ELSE EvalAllRefreshing(kind, c, tok, qs,
                     [la EXCEPT ![d].time = now], log, now, d + 1)

\* The loop over the directions from direction d on, for the quotes qs and
\* the debounce entries la of one token: the entries and the log afterwards
RECURSIVE EvalAll(_, _, _, _, _, _, _, _)
EvalAll(kind, c, tok, qs, la, log, now, d) ==
    IF d > Len(Dirs) THEN [la |-> la, log |-> log]
    ELSE LET bq == qs[Dirs[d].buy]
             sq == qs[Dirs[d].sell]
         IN IF /\ Qualifies(kind, c, d, bq, sq)
               /\ ShouldEmit(kind, c, la[d], now, NetSpread(c, d, bq, sq))
            THEN EvalAll(kind, c, tok, qs,
                         SetLastAlert(la, d, now, NetSpread(c, d, bq, sq)),
                         Append(log,
                                [alert |-> Alert(kind, c, tok, d, bq, sq),
                                 now |-> now, last |-> la[d],
                                 st |-> "returned", task |-> 0,
                                 pub |-> Len(fed) + 1]),
                         now, d + 1)
            ELSE EvalAll(kind, c, tok, qs, la, log, now, d + 1)

\* _handle_event(e) from its first line to its return
HandleUpdate(e) ==
    /\ cur = 0 /\ mstate = "none"
    /\ Len(fed) < MaxUpdates
    /\ fed' = Append(fed, e)
    /\ IF Stores(engKind, e)
       THEN \E now \in clock..MaxClock :
              LET qs == [quotes[e.token] EXCEPT
                            ![e.venue] = Apply(engKind, @, e)]
                  r == EvalAll(engKind, cfg, e.token, qs, lastAlert[e.token],
                               sinkLog, now, 1)
              IN /\ clock' = now
                 /\ quotes' = [quotes EXCEPT ![e.token] = qs]
                 /\ lastAlert' = [lastAlert EXCEPT ![e.token] = r.la]
                 /\ sinkLog' = r.log
       ELSE UNCHANGED <<quotes, lastAlert, sinkLog, clock>>
    /\ UNCHANGED <<loopVars, busVars, pubVars, taskVars, histVars, tpc,
                   etaskVars, engKind, cfg, supVars, rtVars, mstate, startErr, handled, pubLive>>

InitRules ==
    /\ InitBusState
    /\ cur = 0 /\ mstate = "none"
    /\ InitSup /\ NoRuntime
    /\ \E kind \in {"spread", "hedged"} : \E c \in Configs :
           InitEngineState(kind, c)

NextRules == \E e \in RuleEvents : HandleUpdate(e)

SpecRules == InitRules /\ [][NextRules]_vars

----------------------------------------------------------------------------
\* IngestClient: start(), stop() and the task of _run_with_retries()

\* run_once calls made so far, all clients and tasks together
RECURSIVE SumAtt(_)
SumAtt(S) ==
    IF S = {} THEN 0
    ELSE LET x == CHOOSE y \in S : TRUE
         IN natt[x[1]][x[2]] + SumAtt(S \ {x})

AttemptsLeft == MaxAttempts - SumAtt(Clients \X SupTasks)

\* retry-loop tasks created so far, all clients together
RECURSIVE SumTasks(_)
SumTasks(S) ==
    IF S = {} THEN 0
    ELSE LET x == CHOOSE y \in S : TRUE
         IN supTask[x] + SumTasks(S \ {x})

\* self._task of client p is set and not done
SupActive(p) == supTask[p] # 0 /\ spc[p][supTask[p]] # "done"

LoopGoesOnAlways(p) == TRUE

\* `while not self._stopped.is_set()`
LoopGoesOn(p) == ~stopFlag[p]

\* The task k of client p returns from _run_with_retries; whoever awaits it
\* in stop() is woken.
SupTaskEnds(p, k, res, rd) ==
    /\ spc' = [spc EXCEPT ![p][k] = "done"]
    /\ sres' = [sres EXCEPT ![p][k] = res]
    /\ ready' = IF dwait = p /\ supTask[p] = k
                THEN Append(rd, Cb("main", 0, 0)) ELSE rd
    /\ cur' = 0

\* The loop enters `await self.run_once()`
CallRunOnce(p, k, rd) ==
    /\ AttemptsLeft > 0
    /\ spc' = [spc EXCEPT ![p][k] = "calling"]
    /\ natt' = [natt EXCEPT ![p][k] = @ + 1]
    /\ cur' = SupId(p, k)
    /\ ready' = rd
    /\ UNCHANGED sres

\* First step of the task: delay = initial, the loop test, run_once
SupFirstStep ==
    /\ Runs("sup") /\ spc[Head(ready).a][Head(ready).b] = "new"
    /\ ntodo' = ntodo - 1
    /\ LET p == Head(ready).a
           k == Head(ready).b
       IN /\ delay' = [delay EXCEPT ![p][k] = BackoffInitial]
          /\ IF LoopGoesOn(p)
             THEN CallRunOnce(p, k, Tail(ready))
             ELSE SupTaskEnds(p, k, "ok", Tail(ready)) /\ UNCHANGED natt
    /\ UNCHANGED <<rtVars, busVars, pubVars, taskVars, histVars, tpc, engVars,
                   stopFlag, supTask, dwait, slept, lastErr, restarted, pendingStart>>

\* The lines after run_once: `if self._stopped.is_set(): break`, else
\* `await asyncio.sleep(delay)`
AfterAttempt(p, k) ==
    IF stopFlag[p]
    THEN SupTaskEnds(p, k, "ok", ready) /\ UNCHANGED slept
    ELSE /\ spc' = [spc EXCEPT ![p][k] = "sleep"]
         /\ slept' = [slept EXCEPT ![p][k] = Append(@, delay[p][k])]
         /\ cur' = 0
         /\ UNCHANGED <<ready, sres>>

\* run_once awaits something that is not ready (a socket, a timer)
RunOnceSuspends(p, k) ==
    /\ cur = SupId(p, k) /\ spc[p][k] = "calling"
    /\ spc' = [spc EXCEPT ![p][k] = "attempt"]
    /\ cur' = 0
    /\ UNCHANGED <<rtVars, ready, ntodo, busVars, pubVars, taskVars, histVars, tpc,
                   engVars, stopFlag, supTask, delay, natt, sres, dwait,
                   slept, lastErr, restarted, pendingStart>>

\* RunOnceReturns with the delay set back to the initial one
RunOnceReturnsResets(p, k) ==
    /\ cur = SupId(p, k) /\ spc[p][k] = "calling"
    /\ lastErr' = [lastErr EXCEPT ![p][k] = FALSE]
    /\ delay' = [delay EXCEPT ![p][k] = BackoffInitial]
    /\ AfterAttempt(p, k)
    /\ UNCHANGED <<rtVars, ntodo, busVars, pubVars, taskVars, histVars, tpc, engVars,
                   stopFlag, supTask, natt, dwait, restarted, pendingStart>>

\* run_once returns
RunOnceReturns(p, k) ==
    /\ cur = SupId(p, k) /\ spc[p][k] = "calling"
    /\ lastErr' = [lastErr EXCEPT ![p][k] = FALSE]
    /\ AfterAttempt(p, k)
    /\ UNCHANGED <<rtVars, ntodo, busVars, pubVars, taskVars, histVars, tpc, engVars,
                   stopFlag, supTask, delay, natt, dwait, restarted, pendingStart>>

RunOnceRaisesEscapes(p, k) ==
    /\ cur = SupId(p, k) /\ spc[p][k] = "calling"
    /\ lastErr' = [lastErr EXCEPT ![p][k] = TRUE]
    /\ SupTaskEnds(p, k, "error", ready)
    /\ UNCHANGED <<rtVars, ntodo, busVars, pubVars, taskVars, histVars, tpc, engVars,
                   stopFlag, supTask, delay, natt, dwait, slept, restarted, pendingStart>>

\* run_once raises an Exception: `except Exception` logs it, the loop goes on
RunOnceRaises(p, k) ==
    /\ cur = SupId(p, k) /\ spc[p][k] = "calling"
    /\ lastErr' = [lastErr EXCEPT ![p][k] = TRUE]
    /\ AfterAttempt(p, k)
    /\ UNCHANGED <<rtVars, ntodo, busVars, pubVars, taskVars, histVars, tpc, engVars,
                   stopFlag, supTask, delay, natt, dwait, restarted, pendingStart>>

\* What run_once awaited becomes ready
IOAttempt(p, k) ==
    /\ cur = 0 /\ ntodo = 0
    /\ spc[p][k] = "attempt"
    /\ spc' = [spc EXCEPT ![p][k] = "attemptq"]
    /\ ready' = Append(ready, Cb("sup", p, k))
    /\ UNCHANGED <<rtVars, ntodo, cur, busVars, pubVars, taskVars, histVars, tpc,
                   engVars, stopFlag, supTask, delay, natt, sres, dwait,
                   slept, lastErr, restarted, pendingStart>>

\* ... and run_once runs on
SupAttemptResumes ==
    /\ Runs("sup") /\ spc[Head(ready).a][Head(ready).b] = "attemptq"
    /\ ntodo' = ntodo - 1
    /\ ready' = Tail(ready)
    /\ spc' = [spc EXCEPT ![Head(ready).a][Head(ready).b] = "calling"]
    /\ cur' = SupId(Head(ready).a, Head(ready).b)
    /\ UNCHANGED <<rtVars, busVars, pubVars, taskVars, histVars, tpc, engVars,
                   stopFlag, supTask, delay, natt, sres, dwait, slept, lastErr,
                   restarted, pendingStart>>

\* The task is cancelled from outside while run_once is suspended (no code
\* of IngestClient does it; the event loop does when it shuts down): the
\* future run_once awaits is cancelled and the task is scheduled.
CancelAttempt(p, k) ==
    /\ cur = 0 /\ ntodo = 0
    /\ spc[p][k] = "attempt"
    /\ spc' = [spc EXCEPT ![p][k] = "cancelq"]
    /\ ready' = Append(ready, Cb("sup", p, k))
    /\ UNCHANGED <<rtVars, ntodo, cur, busVars, pubVars, taskVars, histVars, tpc,
                   engVars, stopFlag, supTask, delay, natt, sres, dwait,
                   slept, lastErr, restarted, pendingStart>>

\* SupCancelled with the CancelledError handled like an Exception: logged,
\* then the backoff sleep
SupCancelledSwallowed ==
    /\ Runs("sup") /\ spc[Head(ready).a][Head(ready).b] = "cancelq"
    /\ ntodo' = ntodo - 1
    /\ LET p == Head(ready).a
           k == Head(ready).b
       IN /\ lastErr' = [lastErr EXCEPT ![p][k] = TRUE]
          /\ spc' = [spc EXCEPT ![p][k] = "sleep"]
          /\ slept' = [slept EXCEPT ![p][k] = Append(@, delay[p][k])]
    /\ ready' = Tail(ready)
    /\ UNCHANGED <<rtVars, cur, busVars, pubVars, taskVars, histVars, tpc,
                   engVars, stopFlag, supTask, delay, natt, sres, dwait,
                   restarted, pendingStart>>

\* The CancelledError is thrown into run_once and leaves it:
\* `except asyncio.CancelledError: raise` ends the task as cancelled
SupCancelled ==
    /\ Runs("sup") /\ spc[Head(ready).a][Head(ready).b] = "cancelq"
    /\ ntodo' = ntodo - 1
    /\ SupTaskEnds(Head(ready).a, Head(ready).b, "cancelled", Tail(ready))
    /\ UNCHANGED <<rtVars, busVars, pubVars, taskVars, histVars, tpc, engVars,
                   stopFlag, supTask, delay, natt, dwait, slept, lastErr,
                   restarted, pendingStart>>

\* The timer of asyncio.sleep(delay) fires
TimerFires(p, k) ==
    /\ cur = 0 /\ ntodo = 0
    /\ spc[p][k] = "sleep"
    /\ spc' = [spc EXCEPT ![p][k] = "sleepq"]
    /\ ready' = Append(ready, Cb("sup", p, k))
    /\ UNCHANGED <<rtVars, ntodo, cur, busVars, pubVars, taskVars, histVars, tpc,
                   engVars, stopFlag, supTask, delay, natt, sres, dwait,
                   slept, lastErr, restarted, pendingStart>>

\* After the sleep: the next delay, the loop test, run_once again
SupAfterSleep ==
    /\ Runs("sup") /\ spc[Head(ready).a][Head(ready).b] = "sleepq"
    /\ ntodo' = ntodo - 1
    /\ LET p == Head(ready).a
           k == Head(ready).b
       IN /\ delay' = [delay EXCEPT ![p][k] = NextDelay(@)]
          /\ IF LoopGoesOn(p)
             THEN CallRunOnce(p, k, Tail(ready))
             ELSE SupTaskEnds(p, k, "ok", Tail(ready)) /\ UNCHANGED natt
    /\ UNCHANGED <<rtVars, busVars, pubVars, taskVars, histVars, tpc, engVars,
                   stopFlag, supTask, dwait, slept, lastErr, restarted, pendingStart>>

ClientStartUnguarded(p) ==
    /\ SumTasks(Clients) < MaxSupTasks
    /\ stopFlag' = [stopFlag EXCEPT ![p] = FALSE]
    /\ supTask' = [supTask EXCEPT ![p] = @ + 1]
    /\ spc' = [spc EXCEPT ![p][supTask[p] + 1] = "new"]
    /\ ready' = Append(ready, Cb("sup", p, supTask[p] + 1))
    /\ pendingStart' = IF dwait = p THEN [pendingStart EXCEPT ![p] = "new"]
                       ELSE pendingStart
    /\ UNCHANGED restarted

\* start() clearing the stop event before it looks at the task
ClientStartClearsFirst(p) ==
    IF SupActive(p)
    THEN /\ restarted' = [restarted EXCEPT ![p] = TRUE]
         /\ pendingStart' = IF dwait = p
                            THEN [pendingStart EXCEPT ![p] = "noop"]
                            ELSE pendingStart
         /\ stopFlag' = [stopFlag EXCEPT ![p] = FALSE]
         /\ UNCHANGED <<supTask, spc, ready>>
    ELSE /\ SumTasks(Clients) < MaxSupTasks
         /\ stopFlag' = [stopFlag EXCEPT ![p] = FALSE]
         /\ supTask' = [supTask EXCEPT ![p] = @ + 1]
         /\ spc' = [spc EXCEPT ![p][supTask[p] + 1] = "new"]
         /\ ready' = Append(ready, Cb("sup", p, supTask[p] + 1))
         /\ pendingStart' = IF dwait = p
                            THEN [pendingStart EXCEPT ![p] = "new"]
                            ELSE pendingStart
         /\ UNCHANGED restarted

\* start(): nothing if a task is set and not done; else clear the stop
\* event and create the task
ClientStart(p) ==
    IF SupActive(p)
    THEN /\ restarted' = [restarted EXCEPT ![p] = TRUE]
         /\ pendingStart' = IF dwait = p
                            THEN [pendingStart EXCEPT ![p] = "noop"]
                            ELSE pendingStart
         /\ UNCHANGED <<stopFlag, supTask, spc, ready>>
    ELSE /\ SumTasks(Clients) < MaxSupTasks
         /\ stopFlag' = [stopFlag EXCEPT ![p] = FALSE]
         /\ supTask' = [supTask EXCEPT ![p] = @ + 1]
         /\ spc' = [spc EXCEPT ![p][supTask[p] + 1] = "new"]
         /\ ready' = Append(ready, Cb("sup", p, supTask[p] + 1))
         /\ pendingStart' = IF dwait = p
                            THEN [pendingStart EXCEPT ![p] = "new"]
                            ELSE pendingStart
         /\ UNCHANGED restarted

ClientStopNoWait(p) ==
    /\ stopFlag' = [stopFlag EXCEPT ![p] = TRUE]
    /\ pendingStart' = [pendingStart EXCEPT ![p] = ""]
    /\ UNCHANGED <<mstate, dwait, cur>>

\* stop(): set the stop event, then `await self._task` if there is one
ClientStop(p) ==
    /\ stopFlag' = [stopFlag EXCEPT ![p] = TRUE]
    /\ pendingStart' = [pendingStart EXCEPT ![p] = ""]
    /\ IF SupActive(p)
       THEN /\ mstate' = "stopwait"
            /\ dwait' = p
            /\ cur' = 0
       ELSE UNCHANGED <<mstate, dwait, cur>>

\* The driving task calls start() of client p
DriverStart(p) ==
    /\ cur = Main /\ mstate = "run"
    /\ ClientStart(p)
    /\ UNCHANGED <<rtVars, ntodo, cur, busVars, pubVars, taskVars, histVars, tpc,
                   engVars, delay, natt, sres, dwait, slept, lastErr>>

\* The driving task calls stop() of client p
DriverStop(p) ==
    /\ cur = Main /\ mstate = "run"
    /\ ClientStop(p)
    /\ UNCHANGED <<rtVars, ready, ntodo, busVars, pubVars, taskVars, histVars, tpc,
                   etaskVars, rulesVars, clock, startErr, ehistVars,
                   supTask, spc, delay, natt, sres, slept, lastErr, restarted>>

\* The driving task runs again: after a sleep, or because the task it
\* awaited in stop() is done
DriverResume ==
    /\ Runs("main")
    /\ ntodo' = ntodo - 1
    /\ ready' = Tail(ready)
    /\ dwait' = 0
    /\ mstate' = "run"
    /\ cur' = Main
    /\ UNCHANGED <<rtVars, busVars, pubVars, taskVars, histVars, tpc, etaskVars,
                   rulesVars, clock, startErr, ehistVars, stopFlag, supTask,
                   spc, delay, natt, sres, slept, lastErr, restarted, pendingStart>>

InitSupervisor ==
    /\ InitBusState
    /\ cur = Main /\ mstate = "run"
    /\ InitEngineState("spread", CHOOSE c \in Configs : TRUE)
    /\ InitSup /\ NoRuntime

NextSupervisor ==
    \/ BeginIter
    \/ \E p \in Clients : DriverStart(p)
    \/ \E p \in Clients : DriverStop(p)
    \/ DriverResume
    \/ MainWait
    \/ IOMain
    \/ SupFirstStep
    \/ \E p \in Clients : \E k \in SupTasks : RunOnceSuspends(p, k)
    \/ \E p \in Clients : \E k \in SupTasks : RunOnceReturns(p, k)
    \/ \E p \in Clients : \E k \in SupTasks : RunOnceRaises(p, k)
    \/ \E p \in Clients : \E k \in SupTasks : IOAttempt(p, k)
    \/ SupAttemptResumes
    \/ \E p \in Clients : \E k \in SupTasks : CancelAttempt(p, k)
    \/ SupCancelled
    \/ \E p \in Clients : \E k \in SupTasks : TimerFires(p, k)
    \/ SupAfterSleep

SpecSupervisor == InitSupervisor /\ [][NextSupervisor]_vars

----------------------------------------------------------------------------
\* BotRuntime.run with one rule engine and the ingest clients: the engine is
\* started, then the clients in list order, then run() waits for the stop
\* event; its finally clause shuts everything down.

\* spread_engine.start() / hedged_engine.start()
RuntimeStartEngine ==
    /\ rpc = "boot" /\ ntask = 0
    /\ MainStart

\* `for client in clients: await client.start()`, the next client
RuntimeStartClient(p) ==
    /\ rpc = "boot" /\ ntask # 0
    /\ supTask[p] = 0
    /\ \A q \in Clients : q < p => supTask[q] # 0
    /\ DriverStart(p)

\* The dispatcher task is created and run() waits for the stop event
RuntimeWait ==
    /\ cur = Main /\ mstate = "run"
    /\ rpc = "boot"
    /\ \A p \in Clients : supTask[p] # 0
    /\ dpc' = "new"
    /\ ready' = Append(ready, Cb("disp", 0, 0))
    /\ mstate' = "io"
    /\ cur' = 0
    /\ UNCHANGED <<ntodo, busVars, pubVars, taskVars, histVars, tpc,
                   etaskVars, rulesVars, clock, startErr, ehistVars, supVars,
                   rpc>>

\* SIGINT or SIGTERM: the handler sets the stop event, run() is scheduled
SignalStop ==
    /\ cur = 0 /\ ntodo = 0
    /\ rpc = "boot" /\ mstate = "io"
    /\ rpc' = "shutdown"
    /\ mstate' = "ready"
    /\ ready' = Append(ready, Cb("main", 0, 0))
    /\ UNCHANGED <<ntodo, cur, busVars, pubVars, taskVars, histVars, tpc,
                   etaskVars, rulesVars, clock, startErr, ehistVars, supVars,
                   dpc>>

\* run() goes on after an await
RuntimeResume ==
    IF dwait # 0 THEN DriverResume ELSE MainResume

\* `dispatcher_task.cancel(); await dispatcher_task`: a dispatcher waiting
\* in queue.get() is scheduled with the CancelledError, one that has not
\* run yet keeps its place in the ready list.
RuntimeCancelDispatcher ==
    /\ cur = Main /\ mstate = "run"
    /\ rpc = "shutdown"
    /\ rpc' = "stopping"
    /\ dpc' = IF dpc = "new" THEN "newc" ELSE "woken"
    /\ ready' = IF dpc = "new" THEN ready
                ELSE Append(ready, Cb("disp", 0, 0))
    /\ mstate' = "dispwait"
    /\ cur' = 0
    /\ UNCHANGED <<ntodo, busVars, pubVars, taskVars, histVars, tpc,
                   etaskVars, rulesVars, clock, startErr, ehistVars, supVars>>

\* A step of _dispatch_alerts: its first one up to `await queue.get()`, or
\* the CancelledError that ends it and wakes run()
DispatcherStep ==
    /\ Runs("disp")
    /\ ntodo' = ntodo - 1
    /\ IF dpc = "new"
       THEN dpc' = "getwait" /\ ready' = Tail(ready)
       ELSE dpc' = "done" /\ ready' = Append(Tail(ready), Cb("main", 0, 0))
    /\ UNCHANGED <<cur, busVars, pubVars, taskVars, histVars, tpc, engVars,
                   supVars, rpc>>

\* `hedged_task.cancel(); await hedged_engine.stop()` or the same of the
\* spread engine: stop() cancels the task again and awaits it
RuntimeStopEngine ==
    /\ rpc = "stopping"
    /\ MainStop

\* `for client in clients: await client.stop()`, the next client
RuntimeStopClient(p) ==
    /\ rpc = "stopping" /\ engTask = 0
    /\ ~stopFlag[p]
    /\ \A q \in Clients : q < p => stopFlag[q]
    /\ DriverStop(p)

\* `await bus.close()`, and run() returns
RuntimeClose ==
    /\ cur = Main /\ mstate = "run"
    /\ rpc = "stopping" /\ engTask = 0
    /\ \A p \in Clients : stopFlag[p]
    /\ Close(ready)
    /\ rpc' = "closed"
    /\ mstate' = "done"
    /\ cur' = 0
    /\ UNCHANGED <<ntodo, pubVars, taskVars, tpc, etaskVars, rulesVars,
                   clock, startErr, ehistVars, supVars, dpc>>

InitRuntime ==
    /\ InitBusState
    /\ cur = Main /\ mstate = "run"
    /\ \E kind \in {"spread", "hedged"} :
           InitEngineState(kind, CHOOSE c \in Configs : TRUE)
    /\ InitSup
    /\ rpc = "boot" /\ dpc = "none"

NextRuntime ==
    \/ BeginIter
    \/ RuntimeStartEngine
    \/ \E p \in Clients : RuntimeStartClient(p)
    \/ RuntimeWait
    \/ SignalStop
    \/ RuntimeResume
    \/ RuntimeCancelDispatcher
    \/ DispatcherStep
    \/ RuntimeStopEngine
    \/ \E p \in Clients : RuntimeStopClient(p)
    \/ RuntimeClose
    \/ EngineFirstStep
    \/ EngineGetReturns
    \/ SupFirstStep
    \/ \E p \in Clients : \E k \in SupTasks : RunOnceSuspends(p, k)
    \/ \E p \in Clients : \E k \in SupTasks : RunOnceReturns(p, k)
    \/ \E p \in Clients : \E k \in SupTasks : RunOnceRaises(p, k)
    \/ \E p \in Clients : \E k \in SupTasks : IOAttempt(p, k)
    \/ SupAttemptResumes
    \/ \E p \in Clients : \E k \in SupTasks : TimerFires(p, k)
    \/ SupAfterSleep

SpecRuntime == InitRuntime /\ [][NextRuntime]_vars

----------------------------------------------------------------------------
\* Observations on the publish history

\* Number of copies of publish n ever put into queue q
Copies(n, q) == Cardinality({i \in 1..Len(recv[q]) : recv[q][i] = n})

\* recv[q] lists publish calls in the order the calls were made
InPublishOrder(s) == InPublishOrderSeq(s)

----------------------------------------------------------------------------
\* C1: when publish(item) has returned, every queue that was registered when
\* the call took its snapshot has received exactly one copy of item, and no
\* queue ever holds more than one copy of a publish.
C1_FanOutExactlyOnce ==
    \A n \in 1..npub :
        /\ \A q \in QIds : Copies(n, q) <= 1
        /\ pubDone[n] => \A q \in pubSnap[n] : Copies(n, q) = 1

\* A publish to two registered queues has returned.
C1_Witness ==
    \E n \in 1..npub :
        /\ pubDone[n] /\ Cardinality(pubSnap[n]) = 2
        /\ \A q \in pubSnap[n] : Copies(n, q) = 1

\* C2 (as claimed): every subscriber queue receives the items in the order in
\* which their publish calls were made, bounded queues and concurrent
\* producers included.
C2_PerSubscriberFifo ==
    \A q \in QIds : InPublishOrder(recv[q])

\* C3: a queue never receives an item of a publish call that started after
\* unsubscribe(queue) returned.
C3_NoDeliveryAfterUnsubscribe ==
    \A q \in QIds : \A n \in 1..npub :
        (unsubAt[q] >= 0 /\ n > unsubAt[q]) => Copies(n, q) = 0

\* A publish made after unsubscribe(q) has returned and was delivered to
\* another queue, while q had been receiving before.
C3_Witness ==
    \E q \in QIds : \E n \in 1..npub :
        /\ unsubAt[q] >= 0 /\ n > unsubAt[q]
        /\ recv[q] # <<>>
        /\ pubDone[n] /\ pubSnap[n] # {}

\* C4: whatever subscribe()/unsubscribe() calls interleave with an in-flight
\* publish, each queue receives zero or one copy of its item, and a queue
\* subscribed after the publish took its snapshot receives none.
C4_SnapshotAtomicity ==
    \A n \in 1..npub : \A q \in QIds :
        /\ Copies(n, q) <= 1
        /\ (q <= nq /\ subAt[q] >= n) => Copies(n, q) = 0
        /\ Copies(n, q) = 1 => q \in pubSnap[n]

\* A queue was subscribed, and another unsubscribed, while a publish was in
\* flight; the publish has since returned, delivered to the leaving queue.
C4_Witness ==
    \E n \in 1..npub : \E q1, q2 \in QIds :
        /\ pubDone[n]
        /\ q1 \in pubSnap[n] /\ unsubAt[q1] = n /\ Copies(n, q1) = 1
        /\ q2 <= nq /\ subAt[q2] = n /\ Copies(n, q2) = 0
        /\ \E m \in 1..npub : m > n /\ Copies(m, q2) = 1

----------------------------------------------------------------------------
\* Observations on an engine

\* Task t is about to evaluate a direction
Evaluating(t) == cur = t /\ tpc[t] = "eval" /\ tdir[t] <= Len(Dirs)

EvTok(t)  == Events[pubEv[tev[t]]].token
EvBuy(t)  == quotes[EvTok(t)][Dirs[tdir[t]].buy]
EvSell(t) == quotes[EvTok(t)][Dirs[tdir[t]].sell]
EvLast(t) == lastAlert[EvTok(t)][tdir[t]]
EvNet(t)  == NetSpread(cfg, tdir[t], EvBuy(t), EvSell(t))

\* The direction passes the price, spread and notional gates
GatesPass(t) == Qualifies(engKind, cfg, tdir[t], EvBuy(t), EvSell(t))

\* ... and the debounce test as well
Passes(t) ==
    GatesPass(t) /\ ShouldEmit(engKind, cfg, EvLast(t), tnow[t], EvNet(t))

\* The step hands the alert of the direction under evaluation to the sink
HandsOver(t) ==
    /\ Len(sinkLog') = Len(sinkLog) + 1
    /\ SubSeq(sinkLog', 1, Len(sinkLog)) = sinkLog
    /\ LET e == sinkLog'[Len(sinkLog')] IN
          /\ e.st = "inflight" /\ e.task = t /\ e.pub = tev[t]
          /\ e.alert.token = EvTok(t) /\ e.alert.dir = tdir[t]
          /\ e.alert.buy_price = EvBuy(t).best_ask
          /\ e.alert.sell_price = EvSell(t).best_bid
          /\ e.alert.net_spread_percent = EvNet(t)

\* Positions of the hand-offs that are pending
Pending == {i \in 1..Len(sinkLog) : sinkLog[i].st = "inflight"}

\* Tasks that have dequeued an update and not finished with it
InProgress == {t \in Tasks : tpc[t] \in {"eval", "sinkcall", "sink", "sinkwoken"}}

\* The evaluation logged in e fell inside / outside the debounce window
InsideWindow(e) == e.last.has /\ e.now - e.last.time < cfg.debounce_seconds
OutsideWindow(e) == e.last.has /\ e.now - e.last.time >= cfg.debounce_seconds

----------------------------------------------------------------------------
\* C5 (as claimed): every update published after start() has returned reaches
\* the engine's queue, also when the engine's task has not run yet.
C5_PublishedAfterStartReceived ==
    \A n \in pubLive : \E q \in pubSnap[n] : qowner[q] # 0

\* C6 (as claimed): no hand-off to the sink is ever abandoned; every sink
\* invocation made for a passing evaluation is pending or has completed, also
\* when the engine is stopped while it processes an update.
C6_NoAlertLost ==
    \A i \in 1..Len(sinkLog) : sinkLog[i].st # "cancelled"

\* C6 (amended): each evaluation that passes the price, spread, notional and
\* debounce gates invokes the sink exactly once with that alert and the engine
\* waits in that invocation; the sink is invoked for nothing else; the engine
\* turns to another update only when no invocation is pending; and an
\* invocation is abandoned only by the cancellation stop() requested.
C6_HandOffAwaited ==
    [][ /\ \A t \in Tasks :
             (Evaluating(t) /\ Passes(t))
                 => (HandsOver(t) /\ tpc'[t] = "sinkcall")
        /\ sinkLog' # sinkLog /\ Len(sinkLog') # Len(sinkLog)
             => \E t \in Tasks : Evaluating(t) /\ Passes(t)
        /\ \A t \in Tasks : tev'[t] # tev[t] => Pending = {}
        /\ \A i \in Pending :
             sinkLog'[i].st = "cancelled" => tcancel[sinkLog[i].task]
      ]_vars

\* One hand-off was abandoned by stop(), and after a restart the same
\* opportunity was handed over again and the sink returned.
C6_Witness ==
    \E i, j \in 1..Len(sinkLog) :
        /\ i < j
        /\ sinkLog[i].st = "cancelled" /\ sinkLog[j].st = "returned"
        /\ sinkLog[i].alert.dir = sinkLog[j].alert.dir

\* C7: at no time are two updates of the engine in progress, at most one
\* hand-off to the sink is pending, and it belongs to the update in progress.
C7_OneUpdateAtATime ==
    /\ Cardinality(InProgress) <= 1
    /\ Cardinality(Pending) <= 1
    /\ \A i \in Pending :
          /\ sinkLog[i].task \in InProgress
          /\ tev[sinkLog[i].task] = sinkLog[i].pub

\* The engine is suspended in a hand-off while the next update waits in its
\* queue.
C7_Witness ==
    \E t \in Tasks :
        /\ tpc[t] = "sink" /\ qitems[tq[t]] # <<>>
        /\ Pending # {}

\* C8 (as claimed): no alert is handed to the sink by an evaluation that is
\* inside the debounce window of its key and whose net spread is at most the
\* last net spread plus min_improvement_percent.
C8_DebouncedInsideWindow ==
    \A i \in 1..Len(sinkLog) :
        ~ ( /\ InsideWindow(sinkLog[i])
            /\ sinkLog[i].alert.net_spread_percent
                  <= sinkLog[i].last.spread + cfg.min_improvement_percent )

C10_GateSafety ==
    \A i \in 1..Len(sinkLog) :
        LET a == sinkLog[i].alert IN
        /\ a.buy_price # None /\ a.buy_price > 0
        /\ a.sell_price # None
        /\ a.net_spread_percent >= cfg.min_spread_percent
        /\ a.reference_notional # None
        /\ a.reference_notional >= cfg.min_notional_usdt

\* An alert was emitted, and updates with a zero ask, a small notional or no
\* spread were evaluated as well.
C10_Witness ==
    /\ sinkLog # <<>>
    /\ \E n \in handled : pubEv[n] \in {2, 3, 6}

----------------------------------------------------------------------------
\* Observations on the quote cache and the notional of an alert

\* The notional of one leg as the engine of class kind determines it: the
\* hint for the spread engine, price x size else the hint for the hedged one
LegNotional(kind, q, side) ==
    IF kind = "spread" THEN q.notional ELSE SideNotional(q, side)

\* Positions of the hand-offs the step adds to the log
NewEntries == (Len(sinkLog) + 1)..Len(sinkLog')

\* The notional of the buy / sell leg of alert a in the cache qs
BuyLeg(qs, a)  == LegNotional(engKind, qs[a.token][Dirs[a.dir].buy], "ask")
SellLeg(qs, a) == LegNotional(engKind, qs[a.token][Dirs[a.dir].sell], "bid")

\* The book updates fed so far for token tok at venue v
BookFor(tok, v) ==
    SelectSeq(fed, LAMBDA u : u.event_type = "book" /\ u.token = tok
                                /\ u.venue = v)

\* The value of field f in the last update of us that carries one
RECURSIVE LastValue(_, _)
LastValue(us, f) ==
    IF us = <<>> THEN None
    ELSE IF us[Len(us)][f] # None THEN us[Len(us)][f]
    ELSE LastValue(SubSeq(us, 1, Len(us) - 1), f)

\* The fields the _Quote of each engine class has
QuoteFields(kind) ==
    IF kind = "spread" THEN {"best_bid", "best_ask", "notional"}
    ELSE {"best_bid", "best_ask", "bid_size", "ask_size", "notional"}

\* No update fed for venue v carried a notional hint or a size
NeverNotional(v) ==
    \A i \in 1..Len(fed) :
        fed[i].venue = v =>
            /\ fed[i].notional = None /\ fed[i].bid_size = None
            /\ fed[i].ask_size = None /\ fed[i].size = None

----------------------------------------------------------------------------
\* C11 (as claimed): every alert is emitted with the notional of both of its
\* legs determinable, its reference notional being the smaller of the two.
C11_BothSidesDeterminable ==
    [][ \A i \in NewEntries :
          LET a == sinkLog'[i].alert IN
          /\ BuyLeg(quotes', a) # None /\ SellLeg(quotes', a) # None
          /\ a.reference_notional = Min(BuyLeg(quotes', a), SellLeg(quotes', a))
      ]_vars

\* C11 (amended): the reference notional of an alert is the smallest of the
\* leg notionals that are determinable, and at least one is: no alert is
\* emitted when neither leg has one.
C11_MinOfKnownSides ==
    [][ \A i \in NewEntries :
          LET a == sinkLog'[i].alert
              b == BuyLeg(quotes', a)
              sl == SellLeg(quotes', a)
          IN /\ a.reference_notional # None
             /\ a.reference_notional \in {b, sl}
             /\ b # None => a.reference_notional <= b
             /\ sl # None => a.reference_notional <= sl
      ]_vars

\* The last update fed produced an alert although one leg has no notional,
\* after an earlier update had produced one as well.
C11_Witness ==
    \E i, j \in 1..Len(sinkLog) :
        /\ sinkLog[i].pub = Len(fed)
        /\ (BuyLeg(quotes, sinkLog[i].alert) = None
              \/ SellLeg(quotes, sinkLog[i].alert) = None)
        /\ sinkLog[i].alert.reference_notional # None
        /\ sinkLog[j].pub < Len(fed)

\* C12: while no update for either venue of a direction has carried a
\* notional hint or a size, no alert has been emitted for that direction.
C12_NoAlertWithoutNotional ==
    \A d \in DirIds :
        (NeverNotional(Dirs[d].buy) /\ NeverNotional(Dirs[d].sell))
            => \A i \in 1..Len(sinkLog) : sinkLog[i].alert.dir # d

\* Both venues of direction 1 have prices giving a net spread above the
\* minimum, neither ever had a notional or a size, and nothing was emitted.
C12_Witness ==
    /\ NeverNotional("A") /\ NeverNotional("B")
    /\ PricesOk(quotes["T"]["A"], quotes["T"]["B"])
    /\ SpreadOk(cfg, 1, quotes["T"]["A"], quotes["T"]["B"])
    /\ Len(fed) >= 3
    /\ sinkLog = <<>>

\* C13 (as claimed): every field of every cached quote equals the value
\* carried by the most recent book update for its (token, venue) that had
\* that field.
C13_StickyPartialUpdate ==
    \A tok \in Tokens : \A v \in Venues : \A f \in QuoteFields(engKind) :
        quotes[tok][v][f] = LastValue(BookFor(tok, v), f)

----------------------------------------------------------------------------
\* The supervisor of an ingest client

RECURSIVE Pow(_, _)
Pow(b, e) == IF e = 0 THEN 1 ELSE b * Pow(b, e - 1)

\* C14: the delay slept after the k-th run_once of a retry loop (k = 0, 1,
\* ...) is min(initial * multiplier^k, maximum), so the delays never
\* decrease and never exceed the maximum; a sleep follows every attempt
\* but possibly the last.
C14_BackoffSequence ==
    \A p \in Clients : \A k \in SupTasks :
        /\ \A i \in 1..Len(slept[p][k]) :
               slept[p][k][i] =
                   Min(BackoffInitial * Pow(BackoffMultiplier, i - 1),
                       BackoffMaximum)
        /\ Len(slept[p][k]) <= natt[p][k]
        /\ natt[p][k] <= Len(slept[p][k]) + 1

\* A retry loop that is not stopped, whose run_once raised once more, has
\* been retried until its delay stays at the maximum
C14_Witness ==
    \E p \in Clients : \E k \in SupTasks :
        /\ ~stopFlag[p] /\ lastErr[p][k] /\ spc[p][k] = "sleep"
        /\ Len(slept[p][k]) >= 7
        /\ slept[p][k][5] < BackoffMaximum
        /\ slept[p][k][6] = BackoffMaximum
        /\ slept[p][k][7] = BackoffMaximum

\* C15: once stop() has set the stop event of a client, run_once of that
\* client is not invoked until a later start() clears the event: a step
\* that invokes run_once is taken with the event clear.
C15_NoAttemptAfterStop ==
    [][\A p \in Clients : \A k \in SupTasks :
           natt'[p][k] # natt[p][k] => ~stopFlag[p] /\ ~stopFlag'[p]]_vars

\* One retry loop was stopped during its backoff sleep, another one while
\* its run_once was in flight, and both have ended
C15_Witness ==
    \E p, q \in Clients : \E k, j \in SupTasks :
        /\ spc[p][k] = "done" /\ spc[q][j] = "done"
        /\ sres[p][k] = "ok" /\ sres[q][j] = "ok"
        /\ natt[p][k] >= 1 /\ Len(slept[p][k]) = natt[p][k]
        /\ natt[q][j] = Len(slept[q][j]) + 1

\* stop() of client p has been called and has returned, and no start()
\* followed it
StopReturned(p) == stopFlag[p] /\ dwait # p

\* C16: when stop() of a client has returned, its retry-loop task is done
\* and none of its run_once attempts is in flight.
C16_StopWaitsForLoop ==
    \A p \in Clients :
        StopReturned(p) =>
            \A k \in SupTasks : spc[p][k] \in {"none", "done"}

\* stop() was called while run_once was in flight and has returned to the
\* driving task after that attempt
C16_Witness ==
    \E p \in Clients :
        /\ StopReturned(p) /\ cur = Main /\ mstate = "run"
        /\ supTask[p] # 0 /\ spc[p][supTask[p]] = "done"
        /\ sres[p][supTask[p]] = "ok"
        /\ natt[p][supTask[p]] = Len(slept[p][supTask[p]]) + 1

\* C17: stop() cancels the run_once attempt in flight: while stop() of a
\* client waits for the retry-loop task, no run_once of that client stays
\* suspended on its stream, so stop() never depends on data arriving.
C17_StopCancelsAttempt ==
    \A p \in Clients :
        dwait = p => \A k \in SupTasks : spc[p][k] # "attempt"

\* The retry-loop tasks of client p that are not done
ActiveLoops(p) == {k \in SupTasks : spc[p][k] \notin {"none", "done"}}

\* C18: start() during an active run creates no retry loop and changes
\* nothing of the client, and every client has at most one retry-loop task
\* that is not done (hence at most one run_once in flight), whatever the
\* sequence of start() and stop() calls.
C18_StartIdempotent ==
    [][/\ \A p \in Clients : Cardinality(ActiveLoops(p)') <= 1
       /\ restarted' # restarted =>
              UNCHANGED <<stopFlag, supTask, spc, delay, natt, sres, slept,
                          ready>>]_vars

\* A client was started, stopped and started again, start() was called
\* during a run, and its second retry loop has a run_once in flight
C18_Witness ==
    \E p \in Clients :
        /\ restarted[p] /\ supTask[p] = 2
        /\ spc[p][1] = "done" /\ spc[p][2] = "attempt"

\* C19: an error raised by run_once never ends the retry loop with an
\* exception, so nothing propagates to who awaits the task in stop(); the
\* step in which run_once ends by raising leads to the backoff sleep unless
\* the client is stopped, and after the sleep of a client that is not
\* stopped run_once is invoked again.
C19_ErrorsSwallowed ==
    [][\A p \in Clients : \A k \in SupTasks :
           /\ sres'[p][k] # "error"
           /\ (spc[p][k] = "calling" /\ lastErr'[p][k]
                   /\ spc'[p][k] \notin {"calling", "attempt"}) =>
                  IF stopFlag[p]
                  THEN spc'[p][k] = "done" /\ sres'[p][k] = "ok"
                  ELSE /\ spc'[p][k] = "sleep"
                       /\ slept'[p][k] = Append(slept[p][k], delay[p][k])
           /\ (spc[p][k] = "sleepq" /\ spc'[p][k] # "sleepq"
                   /\ ~stopFlag[p]) =>
                  /\ spc'[p][k] = "calling"
                  /\ natt'[p][k] = natt[p][k] + 1]_vars

\* run_once raised, the loop slept, and run_once is being called again
C19_Witness ==
    \E p \in Clients : \E k \in SupTasks :
        /\ lastErr[p][k] /\ ~stopFlag[p]
        /\ spc[p][k] = "calling" /\ natt[p][k] >= 2
        /\ Len(slept[p][k]) = natt[p][k] - 1

----------------------------------------------------------------------------
\* The shutdown of the runtime

\* stop() of the rule engine has been called
EngineStopCalled == ntask > 0 /\ ~EngineLive

\* C20: on shutdown the producers are stopped first, then the rule engine,
\* then the bus is closed: when the engine is stopped no retry loop of a
\* producer is still running, and when the bus is closed every queue an
\* engine subscribed has been unsubscribed.
C20_ProducersThenEnginesThenBus ==
    /\ EngineStopCalled => \A p \in Clients : ActiveLoops(p) = {}
    /\ rpc = "closed" => \A q \in 1..nq : unsubAt[q] # -1

----------------------------------------------------------------------------
\* close() and the publishes in flight

\* The queues a close() has deregistered
ClosedQueues == {q \in QIds : closedAt[q] # -1}

\* C21 (as stated): after close() has returned no queue it deregistered is
\* registered, and every one of them is empty, also while a publish whose
\* snapshot was taken before the close is in flight.
C21_ClosedQueuesEmpty ==
    \A q \in ClosedQueues : q \notin subscribers /\ qitems[q] = <<>>

\* C21 (amended): at the moment close() returns the subscriber set is empty
\* and every queue it deregistered is empty; such a queue is never
\* registered again, and what it holds later are items of publishes whose
\* snapshot was taken before the close, put by their put tasks in flight.
C21_EmptyWhenCloseReturns ==
    [][/\ closedAt' # closedAt =>
              /\ subscribers' = {}
              /\ \A q \in QIds :
                     closedAt'[q] # closedAt[q] => qitems'[q] = <<>>
       /\ \A q \in ClosedQueues' :
              /\ q \notin subscribers'
              /\ \A i \in 1..Len(qitems'[q]) : qitems'[q][i] <= closedAt'[q]]_vars

\* close() has returned and left a queue empty for which a put task of a
\* publish in flight is scheduled
C21_Witness ==
    \E q \in ClosedQueues :
        /\ qitems[q] = <<>> /\ subscribers = {}
        /\ \E i \in 1..Len(ready) :
               /\ ready[i].k = "put" /\ ready[i].b = q
               /\ ~pubDone[ready[i].a]

----------------------------------------------------------------------------
\* Backpressure

\* The put task of publish n for queue q waits in Queue._putters
InPutters(n, q) == \E i \in 1..Len(putters[q]) : putters[q][i] = n

\* The put task of publish n for queue q is scheduled to run
PutScheduled(n, q) ==
    \E i \in 1..Len(ready) :
        ready[i].k = "put" /\ ready[i].a = n /\ ready[i].b = q

\* C22: publish() returns only when every queue of its snapshot has accepted
\* the item; a put for a full bounded queue waits, with the publisher
\* suspended, until an item is removed from that queue; and no item is
\* dropped: every put of a publish has been accepted, waits, or is scheduled,
\* and no bounded queue holds more than its capacity.
C22_Backpressure ==
    [][/\ \A n \in 1..npub' : \A q \in pubSnap'[n] :
              /\ pubDone'[n] => Copies(n, q)' = 1
              /\ Copies(n, q)' = 1 \/ InPutters(n, q)' \/ PutScheduled(n, q)'
              /\ InPutters(n, q)' => qcap'[q] > 0 /\ ~pubDone'[n]
       /\ \A q \in QIds : qcap'[q] > 0 => Len(qitems'[q]) <= qcap'[q]
       /\ \A n \in 1..npub : \A q \in pubSnap[n] :
              InPutters(n, q) /\ ~InPutters(n, q)' =>
                  Len(qitems'[q]) < Len(qitems[q])]_vars

\* A publisher is suspended in publish() because a bounded queue of its
\* snapshot is full
C22_Witness ==
    \E n \in 1..npub : \E q \in pubSnap[n] :
        /\ InPutters(n, q) /\ Full(q)
        /\ ~pubDone[n] /\ pubBy[n] \in Producers
        /\ pstate[pubBy[n]] = "gather"

\* C24 (as stated): while the put of a publish waits for a full bounded
\* queue, no other queue of the same snapshot has received the item.
C24_OthersWaitForFullQueue ==
    \A n \in 1..npub : \A q \in pubSnap[n] :
        InPutters(n, q) /\ Full(q) =>
            \A q2 \in pubSnap[n] \ {q} : Copies(n, q2) = 0

\* C24 (amended): the puts of one publish are tasks of their own: while one
\* of them waits for a full bounded queue, each other queue of the snapshot
\* has received the item, or its own put is scheduled or waits for that
\* queue; what the full queue holds up is the return of publish().
C24_OnlyPublishWaits ==
    \A n \in 1..npub : \A q \in pubSnap[n] :
        InPutters(n, q) =>
            /\ ~pubDone[n] /\ pubPend[n] > 0
            /\ \A q2 \in pubSnap[n] \ {q} :
                   Copies(n, q2) = 1 \/ PutScheduled(n, q2) \/ InPutters(n, q2)

\* One queue of a snapshot is full and holds up the publish, and the other
\* queue has received its item
C24_Witness ==
    \E n \in 1..npub : \E q \in pubSnap[n] : \E q2 \in pubSnap[n] \ {q} :
        /\ InPutters(n, q) /\ Full(q) /\ ~pubDone[n]
        /\ Copies(n, q2) = 1

----------------------------------------------------------------------------
\* The debounce decisions of the two engines

\* Net spreads around the improvement threshold of an entry
NetsAround(last) ==
    {last.spread} \cup
    {last.spread + cfg.min_improvement_percent + k : k \in -1..1}

\* C23: the two engines take the same debounce decision: for every entry of
\* the debounce table, every time now and every current net spread,
\* HedgedSpreadEngine._should_emit says emit exactly when the test of
\* SpreadEngine._evaluate_spreads does (at last net spread + minimum
\* improvement inside the window both suppress).
C23_SameDebounceDecision ==
    \A tok \in Tokens : \A d \in DirIds : \A now \in clock..MaxClock :
        \A net \in NetsAround(lastAlert[tok][d]) :
            HedgedShouldEmit(cfg, lastAlert[tok][d], now, net)
                = SpreadShouldEmit(cfg, lastAlert[tok][d], now, net)

----------------------------------------------------------------------------
\* The bus lock

\* C25: every change of the subscriber set is made with the bus lock held:
\* subscribe() and unsubscribe() acquire the lock that publish() and close()
\* hold while they read or clear the set.
C25_SetChangedUnderLock ==
    \A q \in QIds : subLock[q] # "free" /\ unsubLock[q] # "free"

----------------------------------------------------------------------------
\* The delay of a retry loop

\* The backoff sleeps the task k of client p has finished
SleepsDone(p, k) ==
    Len(slept[p][k]) - (IF spc[p][k] \in {"sleep", "sleepq"} THEN 1 ELSE 0)

\* C26: a run_once that returns does not reset the delay: the delay of a
\* retry loop depends only on the number of attempts it has slept after,
\* whether they returned or raised; the loop sleeps after a successful
\* attempt with the delay it has accumulated; and the delay is the initial
\* one only in a freshly started loop.
C26_DelayNotResetBySuccess ==
    [][\A p \in Clients : \A k \in SupTasks :
           /\ spc'[p][k] \notin {"none", "new"} =>
                  delay'[p][k] =
                      Min(BackoffInitial
                              * Pow(BackoffMultiplier, SleepsDone(p, k)'),
                          BackoffMaximum)
           /\ (spc[p][k] = "calling" /\ spc'[p][k] = "sleep"
                   /\ ~lastErr'[p][k]) =>
                  /\ delay'[p][k] = delay[p][k]
                  /\ slept'[p][k] = Append(slept[p][k], delay[p][k])]_vars

\* A retry loop slept a delay above the initial one after a run_once that
\* returned, was stopped, and the loop of the next start() sleeps the
\* initial delay
C26_Witness ==
    \E p \in Clients :
        /\ supTask[p] = 2 /\ spc[p][1] = "done" /\ ~lastErr[p][1]
        /\ Len(slept[p][1]) >= 2 /\ natt[p][1] = Len(slept[p][1])
        /\ slept[p][1][Len(slept[p][1])] > BackoffInitial
        /\ spc[p][2] = "sleep" /\ slept[p][2] = <<BackoffInitial>>

----------------------------------------------------------------------------
\* Cancellation of a retry loop

\* C27: a CancelledError raised inside a run_once in flight leaves the retry
\* loop and ends its task as cancelled: the step that throws it is followed
\* by no backoff sleep and no run_once, it is not recorded as an error of
\* run_once, and a task that ended cancelled stays ended.
C27_CancellationPropagates ==
    [][\A p \in Clients : \A k \in SupTasks :
           /\ (spc[p][k] = "cancelq" /\ spc'[p][k] # "cancelq") =>
                  /\ spc'[p][k] = "done" /\ sres'[p][k] = "cancelled"
                  /\ slept'[p][k] = slept[p][k]
                  /\ natt'[p][k] = natt[p][k]
                  /\ lastErr'[p][k] = lastErr[p][k]
           /\ sres[p][k] = "cancelled" =>
                  /\ spc'[p][k] = "done" /\ sres'[p][k] = "cancelled"
                  /\ slept'[p][k] = slept[p][k]
                  /\ natt'[p][k] = natt[p][k]]_vars

\* The retry loop of a client that was not stopped ended because its
\* run_once in flight was cancelled
C27_Witness ==
    \E p \in Clients : \E k \in SupTasks :
        /\ sres[p][k] = "cancelled" /\ spc[p][k] = "done"
        /\ ~stopFlag[p] /\ natt[p][k] = Len(slept[p][k]) + 1

\* C28: once an engine has processed a book update for (token, venue), also
\* one that carries neither a bid nor an ask price, its cache holds a Quote
\* for (token, venue) whose timestamp is that of the latest such update
C28_QuoteOfLatestBookUpdate ==
    \A tok \in Tokens : \A v \in Venues :
        LET us == BookFor(tok, v)
        IN us # <<>> =>
               /\ quotes[tok][v].has
               /\ quotes[tok][v].timestamp_ms = us[Len(us)].timestamp_ms

\* C29: an update whose kind is not "book" is a no-op for both engines: the
\* step that processes it creates no Quote, changes no Quote field and no
\* timestamp, changes no debounce entry, reads no clock for an evaluation and
\* hands no alert to the sink
C29_NonBookIsNoOp ==
    [][(fed' # fed /\ fed'[Len(fed')].event_type # "book")
           => UNCHANGED <<quotes, lastAlert, sinkLog, clock>>]_vars

\* A trade carrying prices, sizes and a notional was processed after the
\* venue's Quote and a debounce entry existed
C29_Witness ==
    /\ Len(fed) >= 3
    /\ fed[Len(fed)].event_type = "trade"
    /\ fed[Len(fed)].best_bid # None
    /\ quotes[fed[Len(fed)].token][fed[Len(fed)].venue].has
    /\ \E d \in 1..Len(Dirs) : lastAlert[fed[Len(fed)].token][d].has

\* C30: in the direct spread engine the notional of each side of a cached
\* Quote is that side's price times its size when the book updates fed for
\* the venue made both known, and the notional hint of those updates only
\* otherwise
C30_SpreadSideIsPriceTimesSize ==
    engKind = "spread" =>
        \A tok \in Tokens : \A v \in Venues : \A side \in {"ask", "bid"} :
            LET us    == BookFor(tok, v)
                price == LastValue(us, IF side = "ask" THEN "best_ask"
                                       ELSE "best_bid")
                size  == LastValue(us, IF side = "ask" THEN "ask_size"
                                       ELSE "bid_size")
            IN quotes[tok][v].has =>
                   LegNotional(engKind, quotes[tok][v], side)
                       = IF price # None /\ size # None THEN price * size
                         ELSE LastValue(us, "notional")

----------------------------------------------------------------------------
\* Observations on the evaluation of a direction

\* C31: in the hedged engine the notional of the buy leg of an alert is the
\* buy venue's ask price times its ask size, that of the sell leg the sell
\* venue's bid price times its bid size, whenever the cache holds both; the
\* general notional stands in only when the price or the size of that side
\* is missing; the reference notional is the minimum over the legs that
\* have a value.
C31_HedgedLegIsPriceTimesSize ==
    [][engKind = "hedged" =>
         \A i \in NewEntries :
           LET a  == sinkLog'[i].alert
               bq == quotes'[a.token][Dirs[a.dir].buy]
               sq == quotes'[a.token][Dirs[a.dir].sell]
               b  == IF bq.best_ask # None /\ bq.ask_size # None
                     THEN bq.best_ask * bq.ask_size ELSE bq.notional
               sl == IF sq.best_bid # None /\ sq.bid_size # None
                     THEN sq.best_bid * sq.bid_size ELSE sq.notional
           IN a.reference_notional = MinKnown(b, sl)
      ]_vars

\* The hedged engine emitted with a buy leg whose ask price and ask size are
\* cached next to a general notional of another value, which was not used
C31_Witness ==
    /\ engKind = "hedged"
    /\ \E i \in 1..Len(sinkLog) :
         LET a  == sinkLog[i].alert
             bq == quotes[a.token][Dirs[a.dir].buy]
         IN /\ sinkLog[i].pub = Len(fed)
            /\ bq.best_ask # None /\ bq.ask_size # None /\ bq.notional # None
            /\ bq.notional < bq.best_ask * bq.ask_size
            /\ a.reference_notional = bq.best_ask * bq.ask_size

----------------------------------------------------------------------------
\* The engines' _handle_event under several configurations, fed updates for
\* two tokens

\* The same update for token tok
ForToken(tok, e) == [e EXCEPT !.token = tok]

\* fee_bps dicts: both venues, the perp venue B missing
FeeMaps == {
    [v \in {"A", "B"} |-> IF v = "A" THEN 10 ELSE 20],
    [v \in {"A"} |-> 10]
}

\* SpreadConfig / HedgedSpreadConfig values: debounce_seconds 0 is what
\* _build_spread_config / _build_hedged_config pass when the setting is absent
GateConfigs ==
    { [min_spread_percent |-> 50, min_notional_usdt |-> 50,
       min_improvement_percent |-> imp, debounce_seconds |-> deb,
       slippage_bps |-> 5, fee_bps |-> fees] :
         imp \in {0, 100}, deb \in {0, 2}, fees \in FeeMaps }

GateEvents == {
    Ev("book", "A", 106,  100,  150, None, None, None, 1),
    Ev("book", "A", None, 100,  5,   None, None, None, 2),
    Ev("book", "B", 105,  100,  200, None, None, None, 2),
    Ev("book", "B", 106,  None, 200, None, None, None, 3),
    Ev("book", "B", 107,  None, 200, None, None, None, 4),
    Ev("book", "B", 100,  None, 200, None, None, None, 5),
    ForToken("U", Ev("book", "A", 106, 100, 150, None, None, None, 1)),
    ForToken("U", Ev("book", "B", 105, 100, 200, None, None, None, 2))
}

InitGates ==
    /\ InitBusState
    /\ cur = 0 /\ mstate = "none"
    /\ InitSup /\ NoRuntime
    /\ \E kind \in {"spread", "hedged"} : \E c \in GateConfigs :
           InitEngineState(kind, c)

NextGates == \E e \in GateEvents : HandleUpdate(e)

SpecGates == InitGates /\ [][NextGates]_vars

\* C32: every alert is built from the buy venue's ask and the sell venue's
\* bid with gross = (bid - ask) / ask * 100 and net = gross minus
\* (fee_bps[buy] + fee_bps[sell] + slippage_bps) / 100, a venue missing from
\* fee_bps counting 0 (percentages in hundredths of a percent).  With ask
\* 1.00, bid 1.05, fees of 10 and 20 bps and 5 bps of slippage that is gross
\* 5.00, net 4.65, and with notionals 150 and 200 reference notional 150.
C32_NetIsGrossMinusCosts ==
    [][\A i \in NewEntries :
         LET a     == sinkLog'[i].alert
             buy   == Dirs[a.dir].buy
             sell  == Dirs[a.dir].sell
             bq    == quotes'[a.token][buy]
             sq    == quotes'[a.token][sell]
             fee(v) == IF v \in DOMAIN cfg.fee_bps THEN cfg.fee_bps[v] ELSE 0
             gross == ((sq.best_bid - bq.best_ask) * 10000) \div bq.best_ask
         IN /\ a.buy_price = bq.best_ask /\ a.sell_price = sq.best_bid
            /\ a.gross_spread_percent = gross
            /\ a.net_spread_percent
                   = gross - (fee(buy) + fee(sell) + cfg.slippage_bps)
            /\ (/\ bq.best_ask = 100 /\ sq.best_bid = 105
                /\ fee(buy) + fee(sell) = 30 /\ cfg.slippage_bps = 5)
                   => /\ a.gross_spread_percent = 500
                      /\ a.net_spread_percent = 465
                      /\ (engKind = "spread" /\ bq.notional = 150
                            /\ sq.notional = 200)
                             => a.reference_notional = 150
      ]_vars

\* The spread engine emitted for ask 100 / bid 105 with notionals 150 and
\* 200 under fees of 10 and 20 bps: net 465, reference notional 150
C32_Witness ==
    /\ engKind = "spread"
    /\ DOMAIN cfg.fee_bps = {"A", "B"}
    /\ \E i \in 1..Len(sinkLog) :
         LET a == sinkLog[i].alert
         IN /\ a.dir = 1 /\ a.buy_price = 100 /\ a.sell_price = 105
            /\ a.gross_spread_percent = 500 /\ a.net_spread_percent = 465
            /\ a.reference_notional = 150

\* C33: for the configured HedgedPair the hedged engine evaluates two
\* directions, so one update yields at most one alert per direction tag.
\* An order_buy_perp_sell alert is priced with the order venue's ask
\* (order_price, the buy price) and the perp venue's bid (perp_price, the
\* sell price); a perp_buy_order_sell alert with the perp venue's ask
\* (perp_price, the buy price) and the order venue's bid (order_price, the
\* sell price).  Every alert names order_venue and perp_venue as configured.
C33_HedgedDirections ==
    [][engKind = "hedged" =>
         /\ \A i \in NewEntries :
              LET a  == sinkLog'[i].alert
                  oq == quotes'[a.token][Pair.order_venue]
                  pq == quotes'[a.token][Pair.perp_venue]
              IN /\ a.order_venue = Pair.order_venue
                 /\ a.perp_venue = Pair.perp_venue
                 /\ a.direction \in {"order_buy_perp_sell",
                                     "perp_buy_order_sell"}
                 /\ a.direction = "order_buy_perp_sell" =>
                      /\ a.order_price = oq.best_ask
                      /\ a.perp_price = pq.best_bid
                      /\ a.gross_spread_percent =
                           ((a.perp_price - a.order_price) * 10000)
                               \div a.order_price
                 /\ a.direction = "perp_buy_order_sell" =>
                      /\ a.perp_price = pq.best_ask
                      /\ a.order_price = oq.best_bid
                      /\ a.gross_spread_percent =
                           ((a.order_price - a.perp_price) * 10000)
                               \div a.perp_price
         /\ \A i, j \in NewEntries :
              sinkLog'[i].alert.direction = sinkLog'[j].alert.direction
                  => i = j
      ]_vars

\* One update made the hedged engine emit in both directions, the order
\* venue's ask differing from its bid and the perp venue's likewise
C33_Witness ==
    /\ engKind = "hedged"
    /\ \E i, j \in 1..Len(sinkLog) :
         /\ sinkLog[i].pub = Len(fed) /\ sinkLog[j].pub = Len(fed)
         /\ sinkLog[i].alert.direction = "order_buy_perp_sell"
         /\ sinkLog[j].alert.direction = "perp_buy_order_sell"
         /\ sinkLog[i].alert.order_price # sinkLog[j].alert.order_price
         /\ sinkLog[i].alert.perp_price # sinkLog[j].alert.perp_price

\* C34: debounce keys are independent.  A step changes the entry of a key
\* (token, direction) only by emitting an alert for that key, and whether an
\* evaluated direction that passes the price, spread and notional gates
\* emits is decided by the entry of its own key alone: a key without an
\* entry always emits, whatever was emitted for the other direction of the
\* pair or for the same pair of another token.
C34_KeysIndependent ==
    [][fed' # fed =>
         LET e == fed'[Len(fed')] IN
         /\ \A tok \in Tokens : \A d \in DirIds :
              lastAlert'[tok][d] # lastAlert[tok][d] =>
                  \E i \in NewEntries : /\ sinkLog'[i].alert.token = tok
                                        /\ sinkLog'[i].alert.dir = d
         /\ Stores(engKind, e) =>
              \A d \in DirIds :
                LET bq  == quotes'[e.token][Dirs[d].buy]
                    sq  == quotes'[e.token][Dirs[d].sell]
                    own == lastAlert[e.token][d]
                    emitted == \E i \in NewEntries :
                                  /\ sinkLog'[i].alert.token = e.token
                                  /\ sinkLog'[i].alert.dir = d
                IN Qualifies(engKind, cfg, d, bq, sq) =>
                     /\ ~own.has => emitted
                     /\ emitted <=> ShouldEmit(engKind, cfg, own, clock',
                                               NetSpread(cfg, d, bq, sq))
      ]_vars

\* Inside one debounce window both directions of the pair emitted for token
\* T, and then both directions of the same pair for token U
C34_Witness ==
    /\ cfg.debounce_seconds = 2 /\ cfg.min_improvement_percent = 100
    /\ clock = 0 /\ Len(sinkLog) = 4
    /\ \A tok \in Tokens : \A d \in DirIds :
         /\ lastAlert[tok][d].has
         /\ \E i \in 1..Len(sinkLog) : /\ sinkLog[i].alert.token = tok
                                       /\ sinkLog[i].alert.dir = d
    /\ \E i, j \in 1..Len(sinkLog) :
         /\ sinkLog[i].alert.token = "T" /\ sinkLog[j].alert.token = "U"
         /\ sinkLog[i].pub < sinkLog[j].pub

\* The hand-offs of key (tok, d) in the log whose outcome is in sts
HandOffs(log, tok, d, sts) ==
    {i \in 1..Len(log) : /\ log[i].alert.token = tok /\ log[i].alert.dir = d
                         /\ log[i].st \in sts}

\* The largest element of the non-empty set S of numbers
MaxOf(S) == CHOOSE x \in S : \A y \in S : y <= x

\* C35 (as claimed): a debounce entry exists for a key if and only if an
\* alert has been emitted for that key, an alert counting as emitted once
\* its hand-off to the sink is over, however it ended.
C35_EntryIffEmitted ==
    \A tok \in Tokens : \A d \in DirIds :
        lastAlert[tok][d].has
            <=> HandOffs(sinkLog, tok, d,
                         {"returned", "raised", "cancelled"}) # {}

\* C35 (amended): a debounce entry exists for a key if and only if the
\* hand-off of at least one alert for that key has returned; it holds the
\* time and the net spread of the latest such alert, so it is created by the
\* first and overwritten by every later one; an entry is never removed, and
\* neither is a Quote once created.
C35_EntryIffHandOffReturned ==
    [][/\ \A tok \in Tokens : \A d \in DirIds :
            LET done == HandOffs(sinkLog', tok, d, {"returned"}) IN
            /\ lastAlert'[tok][d].has <=> done # {}
            /\ done # {} =>
                 /\ lastAlert'[tok][d].time = sinkLog'[MaxOf(done)].now
                 /\ lastAlert'[tok][d].spread
                        = sinkLog'[MaxOf(done)].alert.net_spread_percent
            /\ lastAlert[tok][d].has => lastAlert'[tok][d].has
       /\ \A tok \in Tokens : \A v \in Venues :
            quotes[tok][v].has => quotes'[tok][v].has
      ]_vars

\* A key has emitted twice with different net spreads and its entry holds
\* the second emission, while the hand-off of an alert for another key was
\* cancelled and left no entry
C35_Witness ==
    \E tok \in Tokens : \E d, d2 \in DirIds :
        LET done == HandOffs(sinkLog, tok, d, {"returned"}) IN
        /\ Cardinality(done) >= 2
        /\ \E i \in done : sinkLog[i].alert.net_spread_percent
                               # lastAlert[tok][d].spread
        /\ lastAlert[tok][d].spread
               = sinkLog[MaxOf(done)].alert.net_spread_percent
        /\ d2 # d
        /\ HandOffs(sinkLog, tok, d2, {"cancelled", "raised"}) # {}
        /\ ~lastAlert[tok][d2].has

\* C36: stop() cancels the engine's task and waits for it.  From the
\* cancellation on, and as long as the engine is stopped, the quote cache and
\* the debounce map keep their values and nothing is handed to the sink;
\* when stop() returns (self._task becomes None) the task has ended and its
\* queue is not registered on the bus; start() raises only while self._task
\* is set, so a start() after stop() is accepted.
C36_StopUnwindsTask ==
    [][/\ (mstate = "stopwait" \/ engTask = 0) =>
            /\ quotes' = quotes /\ lastAlert' = lastAlert
            /\ Len(sinkLog') = Len(sinkLog)
       /\ (engTask # 0 /\ engTask' = 0) =>
            /\ tpc'[engTask] = "done"
            /\ tq'[engTask] \notin subscribers'
       /\ (startErr' /\ ~startErr) => engTask # 0
      ]_vars

\* stop() cancelled a task that had filled the cache and recorded an
\* emission, the task has unsubscribed and ended, and a second start()
\* was accepted: the new task runs with the cache as it was
C36_Witness ==
    /\ ntask = 2 /\ engTask = 2 /\ ~startErr
    /\ tres[1] = "cancelled" /\ tq[1] # 0 /\ tq[1] \notin subscribers
    /\ tpc[2] \notin {"none", "new", "done"}
    /\ \E tok \in Tokens : \E d \in DirIds : lastAlert[tok][d].has

\* The engine's task ended with the sink's exception and stop() has not been
\* called since
EngineFailed == engTask # 0 /\ tres[engTask] = "error"

\* C37: when the sink raises during a hand-off the engine's task ends with
\* that exception, its queue leaves the bus and no debounce entry is written
\* for the alert.  As long as stop() has not been called after that, no
\* publish call delivers to the engine's queue, the engine handles no
\* update, changes neither cache nor debounce map, hands nothing to the
\* sink, and start() creates no task.
C37_SinkFailureEndsEngine ==
    [][/\ \A i \in 1..Len(sinkLog) :
            (sinkLog[i].st # "raised" /\ sinkLog'[i].st = "raised") =>
                LET t == sinkLog[i].task IN
                /\ tpc'[t] = "done" /\ tres'[t] = "error"
                /\ tq[t] \notin subscribers'
                /\ lastAlert' = lastAlert
                /\ engTask' = t
       /\ EngineFailed =>
            /\ \A n \in 1..npub' : n > npub => tq[engTask] \notin pubSnap'[n]
            /\ fed' = fed /\ quotes' = quotes /\ lastAlert' = lastAlert
            /\ Len(sinkLog') = Len(sinkLog)
            /\ ntask' = ntask
            /\ engTask' \in {engTask, 0}
            /\ startErr' # startErr => startErr'
      ]_vars

\* The sink raised on the first alert of a key, an update was published
\* after that, and start() raised RuntimeError
C37_Witness ==
    /\ EngineFailed /\ startErr
    /\ npub > unsubAt[tq[engTask]] /\ unsubAt[tq[engTask]] >= 0
    /\ \E i \in 1..Len(sinkLog) :
         /\ sinkLog[i].st = "raised" /\ sinkLog[i].task = engTask
         /\ ~lastAlert[sinkLog[i].alert.token][sinkLog[i].alert.dir].has

\* C38: an evaluation that emits nothing for a key, whether the spread or
\* notional gate rejected it or the debounce gate suppressed it, leaves the
\* entry of that key as it was.  The entry's time is therefore the time of
\* the key's last emitted alert, and an evaluation that passes the gates
\* debounce_seconds or more after that time emits, however many suppressed
\* evaluations came in between.
C38_SuppressedLeavesEntry ==
    [][fed' # fed =>
         LET e == fed'[Len(fed')] IN
         \A tok \in Tokens : \A d \in DirIds :
           LET bq  == quotes'[tok][Dirs[d].buy]
               sq  == quotes'[tok][Dirs[d].sell]
               own == lastAlert[tok][d]
               emitted == \E i \in NewEntries : /\ sinkLog'[i].alert.token = tok
                                                /\ sinkLog'[i].alert.dir = d
               before == HandOffs(sinkLog, tok, d, {"returned"})
           IN /\ ~emitted => lastAlert'[tok][d] = own
              /\ own.has => /\ before # {}
                            /\ own.time = sinkLog[MaxOf(before)].now
              /\ (/\ Stores(engKind, e) /\ e.token = tok
                  /\ Qualifies(engKind, cfg, d, bq, sq)
                  /\ own.has /\ clock' - own.time >= cfg.debounce_seconds)
                     => emitted
      ]_vars

\* A key emitted at time 0, its next evaluation at time 1 with the same net
\* spread was suppressed, and the one after that at time 2, the window of 2
\* seconds being over, emitted again with the same net spread
C38_Witness ==
    /\ cfg.debounce_seconds = 2 /\ cfg.min_improvement_percent = 100
    /\ Len(fed) = 4 /\ fed[2] = fed[3] /\ fed[3] = fed[4]
    /\ \E d \in DirIds :
         LET done == HandOffs(sinkLog, fed[4].token, d, {"returned"}) IN
         /\ \E i, j \in done :
              /\ sinkLog[i].pub = 2 /\ sinkLog[i].now = 0
              /\ sinkLog[j].pub = 4 /\ sinkLog[j].now = 2
              /\ sinkLog[i].alert.net_spread_percent
                     = sinkLog[j].alert.net_spread_percent
              /\ sinkLog[j].last.time = 0
         /\ \A i \in done : sinkLog[i].pub # 3

----------------------------------------------------------------------------
\* A second task that calls start() of a client at any time, also while the
\* driving task is suspended in stop() of that client

Starter == Main + 1   \* id of that task while it runs

\* What the second task waits for happens: it is scheduled
IOStarter ==
    /\ cur = 0 /\ ntodo = 0
    /\ \A i \in 1..Len(ready) : ready[i].k # "starter"
    /\ ready' = Append(ready, Cb("starter", 0, 0))
    /\ UNCHANGED <<ntodo, cur, busVars, pubVars, taskVars, histVars, tpc,
                   engVars, supVars, rtVars>>

\* The second task gets to run
RunStarter ==
    /\ Runs("starter")
    /\ ntodo' = ntodo - 1
    /\ ready' = Tail(ready)
    /\ cur' = Starter
    /\ UNCHANGED <<busVars, pubVars, taskVars, histVars, tpc, engVars,
                   supVars, rtVars>>

\* `await client.start()` in the second task, which then waits again;
\* start() has no suspension point
StarterStart(p) ==
    /\ cur = Starter
    /\ ClientStart(p)
    /\ cur' = 0
    /\ UNCHANGED <<rtVars, ntodo, busVars, pubVars, taskVars, histVars, tpc,
                   engVars, delay, natt, sres, dwait, slept, lastErr>>

NextStarter ==
    \/ NextSupervisor
    \/ IOStarter
    \/ RunStarter
    \/ \E p \in Clients : StarterStart(p)

SpecStarter == InitSupervisor /\ [][NextStarter]_vars

\* C39: as long as the retry-loop task of a client is not done no step
\* clears its stop event or creates a task for it, so a start() issued while
\* stop() waits for the loop changes nothing; when such a stop() returns
\* without a start() having found the task done, the client is stopped: its
\* stop event is set and no loop of it is running.  A task is created only
\* when the client has none that is not done, with the stop event cleared,
\* and its loop begins with the delay at its initial value.
C39_StartDuringStop ==
    [][\A p \in Clients :
         /\ SupActive(p) => /\ stopFlag[p] => stopFlag'[p]
                            /\ supTask'[p] = supTask[p]
         /\ (pendingStart'[p] = "noop" /\ pendingStart[p] # "noop") =>
                UNCHANGED <<stopFlag, supTask, spc, delay, natt, sres, slept,
                            ready>>
         /\ (dwait = p /\ dwait' # p /\ pendingStart[p] # "new") =>
                /\ stopFlag'[p]
                /\ supTask'[p] # 0 /\ spc'[p][supTask'[p]] = "done"
         /\ supTask'[p] # supTask[p] =>
                /\ ~SupActive(p) /\ ~stopFlag'[p]
                /\ supTask'[p] = supTask[p] + 1
                /\ spc'[p][supTask'[p]] = "new"
         /\ \A k \in SupTasks :
                (spc[p][k] = "new" /\ spc'[p][k] # "new") =>
                    delay'[p][k] = BackoffInitial
      ]_vars

\* start() was called while stop() waited for a loop whose run_once was in
\* flight; the loop has ended, stop() has returned and the client is stopped
C39_Witness ==
    \E p \in Clients :
        /\ pendingStart[p] = "noop"
        /\ dwait # p /\ cur = Main /\ mstate = "run"
        /\ stopFlag[p]
        /\ supTask[p] = 1 /\ spc[p][1] = "done" /\ sres[p][1] = "ok"
        /\ natt[p][1] >= 1

\* C40: with debounce_seconds = 0 the debounce gate suppresses nothing: each
\* direction of the updated token that passes the price, spread and notional
\* gates emits an alert, whatever min_improvement_percent is and whatever
\* was emitted before, in both engines.
C40_NoDebounceAtZero ==
    [][(cfg.debounce_seconds = 0 /\ fed' # fed
            /\ Stores(engKind, fed'[Len(fed')])) =>
         LET e == fed'[Len(fed')] IN
         \A d \in DirIds :
           Qualifies(engKind, cfg, d, quotes'[e.token][Dirs[d].buy],
                     quotes'[e.token][Dirs[d].sell])
               => \E i \in NewEntries : /\ sinkLog'[i].alert.token = e.token
                                        /\ sinkLog'[i].alert.dir = d
      ]_vars

\* With debounce_seconds = 0 and a minimum improvement of 1.00 a key emitted
\* three times at the same time with the same net spread
C40_Witness ==
    /\ cfg.debounce_seconds = 0 /\ cfg.min_improvement_percent = 100
    /\ \E i, j, k \in 1..Len(sinkLog) :
         /\ i < j /\ j < k
         /\ sinkLog[i].alert.token = sinkLog[j].alert.token
         /\ sinkLog[j].alert.token = sinkLog[k].alert.token
         /\ sinkLog[i].alert.dir = sinkLog[j].alert.dir
         /\ sinkLog[j].alert.dir = sinkLog[k].alert.dir
         /\ sinkLog[i].now = sinkLog[k].now
         /\ sinkLog[i].alert.net_spread_percent
                = sinkLog[j].alert.net_spread_percent
         /\ sinkLog[j].alert.net_spread_percent
                = sinkLog[k].alert.net_spread_percent

=============================================================================
